---- MODULE Spec2Model ----
(***************************************************************************)
(* Verification model of the interview orchestration engine:               *)
(*   - the turn controller (api/routes.py) over the checkpoint store,      *)
(*     the graph step (graph/build.py) and the flow manager                *)
(*     (agents/flow_manager.py), with the LLM oracles as nondeterministic  *)
(*     replies;                                                            *)
(*   - the checkpoint file protocol (graph/checkpointer.py) at the level   *)
(*     of open/write/rename;                                               *)
(*   - the score cache (services/scoring.py);                              *)
(*   - the rubric level tracking of flow_manager/__init__.py.              *)
(* Scores are kept in tenths (3.7 is 37), weights in hundredths.           *)
(***************************************************************************)
EXTENDS Integers, Sequences, FiniteSets, TLC

VARIABLES
    disk,        \* checkpoint directory: resolved path -> <<>> (no file) or <<GraphState>>
    workers,     \* request handlers: worker id -> position, local GraphState, last step result
    now,         \* wall clock, in seconds
    budget,      \* requests that may still be issued
    blockRun,    \* history: consecutive turns on which the monitor returned BLOCK_AND_REFOCUS
    files,       \* file-level store: inode id -> sequence of chunks
    names,       \* file-level store: file name -> inode id (0: no such name)
    writers,     \* file-level save_checkpoint calls in progress
    loaded,      \* file-level: result of the last load_checkpoint
    written,     \* file-level history: the states whose save_checkpoint was started, and
                 \* per session id the state of the last save_checkpoint that returned
    cache,       \* scoring: the score cache under record_eval / mark_skip
    lastScoreOp, \* scoring: the last operation applied and the entry before it
    ctx,         \* advance_session: the InterviewContext carried between calls
    lastPlan,    \* advance_session: the levels before the last call and the plan applied
    store,       \* interview sessions: session id -> SessionRuntime (engine config, state)
    issued,      \* interview sessions: the session ids generated so far, each with the
                 \* way its session ended ("live" while it is in the store)
    lastCall,    \* interview sessions: the last manager call and how it ended
    utcnow,      \* interview sessions: wall clock, in minutes
    intentCall,  \* intent gate: the last classify_intent call, its reply and its result
    flags,       \* behavior monitor: the interview_flags rows, as the actions they carry
    monitorCall, \* behavior monitor: the last run_monitor call, its inputs and its result
    threads,     \* LLM gateway: thread id -> the chat call it is in, or the last one it made
    locks,       \* LLM gateway: _MODEL_LOCKS, lock key -> the thread holding it or "free"
    callsLeft,   \* LLM gateway: chat calls that may still be started
    pair,        \* two sessions side by side: persona -> state, last decision, text shown
    pairTurns,   \* two sessions side by side: turns made so far
    blockTally,  \* history: BLOCK_AND_REFOCUS outcomes since the last ALLOW, in the
                 \* checkpoint (saved) and in the request in flight (run)
    skipTally,   \* history: skips since the last evaluated answer or absorbed nudge
    evalCall,    \* evaluator: the last score_turn call, its inputs and its result
    safetyCall   \* safety engine: the last analyze call, its inputs and its finding

mainVars == <<disk, workers, now, budget, blockRun>>
fileVars == <<files, names, writers, loaded, written>>
scoreVars == <<cache, lastScoreOp>>
advVars == <<ctx, lastPlan>>
sessVars == <<store, issued, lastCall, utcnow>>
monVars == <<flags, monitorCall>>
gwVars == <<threads, locks, callsLeft>>
pairVars == <<pair, pairTurns>>
extraVars == <<blockTally, skipTally, evalCall, safetyCall>>
agentVars == <<intentCall, flags, monitorCall, threads, locks, callsLeft, pair, pairTurns,
               blockTally, skipTally, evalCall, safetyCall>>
vars == <<disk, workers, now, budget, blockRun, files, names, writers, loaded, written,
          cache, lastScoreOp, ctx, lastPlan, store, issued, lastCall, utcnow,
          intentCall, flags, monitorCall, threads, locks, callsLeft, pair, pairTurns,
          blockTally, skipTally, evalCall, safetyCall>>

\* Python's None; a dictionary key that is not there; an absent / None integer entry
None == "None"
Missing == "missing"
EmptyFn == [k \in {} |-> 0]
Absent == -1
NoneInt == -2
Truthy(x) == x \notin {None, Missing, ""}

(***************************************************************************)
(* Bounds of the model.                                                    *)
(***************************************************************************)
MaxRequests == 4
MaxConcRequests == 3
MaxClock == 30
MaxScoreOps == 3
MaxSaves == 2
MaxAdvances == 3
MaxCompetencyAdvances == 4
MaxTallyRequests == 4
MaxEvalCalls == 2
MaxFlowCalls == 1
MaxGraphTurns == 2
MaxSessions == 1
MaxMinutes == 45
MaxMonitorRuns == 2
MaxSinkRequests == 2
MaxGatewayCalls == 3
MaxPersonaTurns == 2

(***************************************************************************)
(* Program constants.                                                      *)
(***************************************************************************)
hints_per_stage == 2
think_seconds == 30
max_followups_per_item == 2
nudge_after_consecutive_skips == 3
HIGH_SATISFIED == 40
LOW_CONTENT_TOKENS == 12
CONF_THRESHOLD == 60
OFF_TOPIC_CUTOFF == 45
warmup_questions == 1
max_competency_followups == 3
low_score_threshold == 25
\* interview_session: InterviewFlowConfig and SessionLifecycleConfig defaults
checkpoint_interval_minutes == 3
max_questions_per_competency == 4
warmup_question_count == 1
timeout_minutes == 30

SumSeq(s) ==
    LET RECURSIVE go(_)
        go(i) == IF i = 0 THEN 0 ELSE s[i] + go(i - 1)
    IN go(Len(s))

(***************************************************************************)
(* Checkpoint paths.  A session key is a sequence of path components (the  *)
(* key split at '/'); the file system resolves "." and ".." components.    *)
(***************************************************************************)
BASE_DIR == << <<"data">>, <<"checkpoints">> >>

_checkpoint_path(session_id) ==
    BASE_DIR \o [i \in 1..Len(session_id) |->
                    IF i = Len(session_id) THEN <<session_id[i], ".json">>
                    ELSE <<session_id[i]>>]

\* what the operating system makes of a path: "." is skipped, ".." pops
Resolve(path) ==
    LET RECURSIVE go(_, _)
        go(i, acc) ==
            IF i > Len(path) THEN acc
            ELSE IF path[i] = <<".">> THEN go(i + 1, acc)
            ELSE IF path[i] = <<"..">>
                 THEN go(i + 1, IF Len(acc) = 0 THEN acc ELSE SubSeq(acc, 1, Len(acc) - 1))
            ELSE go(i + 1, Append(acc, path[i]))
    IN go(1, <<>>)

\* os.path.exists / open for reading: the file the key's path resolves to
FilePath(session_id) == Resolve(_checkpoint_path(session_id))

(***************************************************************************)
(* services/scoring.py: the score cache.  cache["competencies"] is a       *)
(* function competency id -> [items, skipped_count]; items is a function   *)
(* item id -> [turns, best_of].                                            *)
(***************************************************************************)
_bucket(competencies, competency_id) ==
    IF competency_id \in DOMAIN competencies THEN competencies
    ELSE competencies @@ (competency_id :> [items |-> EmptyFn, skipped_count |-> 0])

ItemDefault(items, item_id) ==
    IF item_id \in DOMAIN items THEN items
    ELSE items @@ (item_id :> [turns |-> <<>>, best_of |-> 10])

\* record_eval that stores the latest overall as best_of
record_eval_latest(competencies, ev) ==
    LET comps == _bucket(competencies, ev.competency_id)
        items == ItemDefault(comps[ev.competency_id].items, ev.item_id)
        entry == items[ev.item_id]
        updated == [turns |-> Append(entry.turns, ev.overall), best_of |-> ev.overall]
    IN [comps EXCEPT ![ev.competency_id].items = [items EXCEPT ![ev.item_id] = updated]]

record_eval(competencies, ev) ==
    LET comps == _bucket(competencies, ev.competency_id)
        items == ItemDefault(comps[ev.competency_id].items, ev.item_id)
        entry == items[ev.item_id]
        updated == [turns |-> Append(entry.turns, ev.overall),
                    best_of |-> IF ev.overall > entry.best_of THEN ev.overall
                                ELSE entry.best_of]
    IN [comps EXCEPT ![ev.competency_id].items = [items EXCEPT ![ev.item_id] = updated]]

mark_skip(competencies, competency_id, item_id) ==
    LET comps == _bucket(competencies, competency_id)
        b == comps[competency_id]
    IN [comps EXCEPT ![competency_id] =
            [items |-> ItemDefault(b.items, item_id),
             skipped_count |-> b.skipped_count + 1]]

(***************************************************************************)
(* agents/response_evaluator.py                                            *)
(***************************************************************************)
\* whitespace token count of the message classes the model distinguishes
token_count(text) ==
    CASE text = None -> 0
      [] text = "" -> 0
      [] text = "brief" -> 3
      [] OTHER -> 12

\* float(f"{value:.1f}") of num/den, in tenths (ties rounded up)
_round_1dp(num, den) == (20 * num + den) \div (2 * den)

\* dict(_weights_from_rubric(rubric)): a later entry with the same id wins
WeightOf(rubric, id) ==
    LET RECURSIVE go(_)
        go(i) == IF i = 0 THEN 0
                 ELSE IF rubric[i].id = id THEN rubric[i].weight ELSE go(i - 1)
    IN go(Len(rubric))

RubricIds(rubric) == {rubric[i].id : i \in 1..Len(rubric)}

TotalWeight(rubric) ==
    LET RECURSIVE sum(_)
        sum(S) == IF S = {} THEN 0
                  ELSE LET id == CHOOSE x \in S : TRUE
                       IN WeightOf(rubric, id) + sum(S \ {id})
        total == sum(RubricIds(rubric))
    IN IF total = 0 THEN 100 ELSE total

\* _weighted_overall followed by _round_1dp
_weighted_overall(scores, rubric) ==
    LET acc == SumSeq([i \in 1..Len(scores) |-> WeightOf(rubric, scores[i].id) * scores[i].score])
    IN _round_1dp(acc, TotalWeight(rubric))

_band(overall) == IF overall <= 20 THEN "low" ELSE IF overall < 40 THEN "mid" ELSE "high"

Clamp15(x) == IF x < 1 THEN 1 ELSE IF x > 5 THEN 5 ELSE x

\* reply: [kind: "valid" | "invalid", competency_id, item_id, criterion_scores]
score_turn(competency_id, item_id, followup_index, candidate_reply, rubric, reply) ==
    IF token_count(candidate_reply) < LOW_CONTENT_TOKENS
    THEN [competency_id |-> competency_id, item_id |-> item_id, turn_index |-> followup_index,
          criterion_scores |-> [i \in 1..Len(rubric) |-> [id |-> rubric[i].id, score |-> 1]],
          overall |-> 10, band |-> _band(10)]
    ELSE IF reply.kind = "invalid"
    THEN LET neutral == [i \in 1..Len(rubric) |-> [id |-> rubric[i].id, score |-> 3]]
             overall == _weighted_overall(neutral, rubric)
         IN [competency_id |-> competency_id, item_id |-> item_id, turn_index |-> followup_index,
             criterion_scores |-> neutral, overall |-> overall, band |-> _band(overall)]
    ELSE LET fixed == [i \in 1..Len(reply.criterion_scores) |->
                          [id |-> reply.criterion_scores[i].id,
                           score |-> Clamp15(reply.criterion_scores[i].score)]]
             overall == _weighted_overall(fixed, rubric)
         IN [competency_id |-> IF reply.competency_id = "" THEN competency_id
                               ELSE reply.competency_id,
             item_id |-> IF reply.item_id = "" THEN item_id ELSE reply.item_id,
             turn_index |-> followup_index,
             criterion_scores |-> fixed, overall |-> overall, band |-> _band(overall)]

(***************************************************************************)
(* agents/intent_classifier.py                                             *)
(***************************************************************************)
\* reply: [kind: "valid" | "invalid", intent, confidence (hundredths), rationale]
classify_intent(reply) ==
    LET result == IF reply.kind = "valid"
                  THEN [intent |-> reply.intent, confidence |-> reply.confidence,
                        rationale |-> reply.rationale]
                  ELSE [intent |-> "other", confidence |-> 0,
                        rationale |-> "fallback parsing"]
    IN IF result.confidence < CONF_THRESHOLD
       THEN [intent |-> "ask_clarify", confidence |-> result.confidence,
             rationale |-> result.rationale]
       ELSE result

(***************************************************************************)
(* agents/qg/common.py and the stage routers (agents/qg/*.py)              *)
(***************************************************************************)
should_followup(followup_index, best_of_score) ==
    IF followup_index = 0 THEN TRUE
    ELSE IF followup_index > 2 THEN FALSE
    ELSE IF best_of_score >= HIGH_SATISFIED THEN FALSE
    ELSE TRUE

\* the metadata of the question built for a context
make_question(competency_id, item_id, followup_index) ==
    [competency_id |-> competency_id, item_id |-> item_id, followup_index |-> followup_index,
     question_text |-> IF followup_index = 0 THEN "base"
                       ELSE IF followup_index = 1 THEN "followup1" ELSE "followup2"]

\* warmup.run / competency.run / wrapup.run: <<>> is None, <<q>> a QuestionOut
qg_router(competency_id, item_id, followup_index, best_of_score) ==
    IF followup_index = 0 THEN <<make_question(competency_id, item_id, followup_index)>>
    ELSE IF ~should_followup(followup_index, best_of_score) THEN <<>>
    ELSE <<make_question(competency_id, item_id, followup_index)>>

(***************************************************************************)
(* agents/flow_manager.py.  A GraphState is a record; mem is its "mem"     *)
(* dictionary, with Missing / Absent for keys that are not set.  A flow    *)
(* outcome carries the state after the call, the state written by a        *)
(* checkpoint inside the call (<<>> when there was none), the decision, and *)
(* whether the call raised.                                                *)
(***************************************************************************)
_STAGE_DEFAULTS(stage) ==
    CASE stage = "warmup" -> [competency_id |-> "WARMUP", item_id |-> "WU_01"]
      [] stage = "competency" -> [competency_id |-> "ARCH", item_id |-> "ARCH_01"]
      [] OTHER -> [competency_id |-> "WRAP", item_id |-> "WR_01"]

Decided(st, saved, type, fi, exhausted, reason) ==
    [st |-> st, saved |-> saved, type |-> type, followup_index |-> fi,
     exhausted |-> exhausted, reason |-> reason, raised |-> FALSE]

Raised(st, saved) ==
    [st |-> st, saved |-> saved, type |-> "NONE", followup_index |-> Absent,
     exhausted |-> FALSE, reason |-> "raised", raised |-> TRUE]

_ensure_stage_defaults(st) ==
    LET d == _STAGE_DEFAULTS(st.stage)
    IN [st EXCEPT !.mem.competency_id = IF @ = Missing THEN d.competency_id ELSE @,
                  !.mem.item_id = IF @ = Missing THEN d.item_id ELSE @,
                  !.mem.followup_index = IF @ = Absent THEN 0 ELSE @]

\* _finalize_decision with the threshold compared by > instead of >=
_finalize_decision_gt(st, type) ==
    IF type \in {"ASK", "EVAL_AND_ASK_NEXT", "AUTO_SKIP_MOVED"}
       /\ st.skip_streak > nudge_after_consecutive_skips
    THEN [st EXCEPT !.skip_streak = 0]
    ELSE st

_finalize_decision(st, type) ==
    IF type \in {"ASK", "EVAL_AND_ASK_NEXT", "AUTO_SKIP_MOVED"}
       /\ st.skip_streak >= nudge_after_consecutive_skips
    THEN [st EXCEPT !.skip_streak = 0]
    ELSE st

Finalized(out) == IF out.raised THEN out ELSE [out EXCEPT !.st = _finalize_decision(out.st, out.type)]

_facet_best_of(st) ==
    LET comp_id == IF Truthy(st.mem.competency_id) THEN st.mem.competency_id
                   ELSE _STAGE_DEFAULTS(st.stage).competency_id
        item_id == IF Truthy(st.mem.item_id) THEN st.mem.item_id ELSE st.question_id
        comps == st.mem.score_cache
    IN IF ~Truthy(item_id) THEN 10
       ELSE IF comp_id \notin DOMAIN comps THEN 10
       ELSE IF item_id \notin DOMAIN comps[comp_id].items THEN 10
       ELSE comps[comp_id].items[item_id].best_of

\* a context in which the persona decides the facet status the router sees
_build_qg_ctx_firm(st, followup_index) ==
    [competency_id |-> st.mem.competency_id, item_id |-> st.mem.item_id,
     followup_index |-> followup_index,
     best_of_score |-> IF st.persona = "Firm Evaluator" THEN HIGH_SATISFIED
                       ELSE _facet_best_of(st),
     persona |-> st.persona]

\* the QGContext of a state on which _ensure_stage_defaults has run
_build_qg_ctx(st, followup_index) ==
    [competency_id |-> st.mem.competency_id, item_id |-> st.mem.item_id,
     followup_index |-> followup_index, best_of_score |-> _facet_best_of(st),
     persona |-> st.persona]

\* _build_qg_ctx, the stage router, and the checkpoint written after a question is set
_ask(st, followup_index) ==
    LET s1 == _ensure_stage_defaults(st)
        qg_ctx == _build_qg_ctx(s1, followup_index)
        q == qg_router(qg_ctx.competency_id, qg_ctx.item_id, qg_ctx.followup_index,
                       qg_ctx.best_of_score)
    IN IF s1.mem.competency_id = None \/ s1.mem.item_id = None
       THEN Raised(s1, <<>>)      \* QGContext rejects a None id
       ELSE IF q = <<>>
       THEN Decided(s1, <<>>, "AUTO_SKIP_MOVED", Absent, FALSE, "facet_satisfied")
       ELSE LET s2 == [s1 EXCEPT !.question_text = q[1].question_text,
                                 !.question_id = q[1].item_id,
                                 !.mem.competency_id = q[1].competency_id,
                                 !.mem.item_id = q[1].item_id,
                                 !.mem.followup_index = q[1].followup_index]
            IN Decided(s2, <<s2>>, "ASK", q[1].followup_index, FALSE, "ask")

\* a variant of the re-ask that also drops the think timer comes first
_reask_clears_think(st) ==
    Decided([st EXCEPT !.mem.think_until = NoneInt], <<>>, "REASK", Absent, FALSE, "reask")

_reask(st) == Decided(st, <<>>, "REASK", Absent, FALSE, "reask")

\* hint_reply: "ok" or "raise" (the hint oracle call)
_handle_hint(st, hint_reply) ==
    IF hint_reply = "raise" THEN Raised(st, <<>>)
    ELSE Decided(st, <<>>, "HINT", Absent, FALSE, "hint")

_handle_skip(st, reason) ==
    LET s1 == [st EXCEPT !.skip_streak = @ + 1]
        current_comp == IF Truthy(s1.mem.competency_id) THEN s1.mem.competency_id
                        ELSE _STAGE_DEFAULTS(s1.stage).competency_id
        current_item == IF Truthy(s1.mem.item_id) THEN s1.mem.item_id
                        ELSE IF Truthy(s1.question_id) THEN s1.question_id ELSE ""
        s2 == [s1 EXCEPT !.mem.score_cache = mark_skip(@, current_comp, current_item),
                         !.mem.followup_index = 0]
        ask_decision == _ask(s2, 0)
    IN IF ask_decision.raised THEN ask_decision
       ELSE Decided(ask_decision.st, ask_decision.saved, "SKIP_AND_NEXT",
                    ask_decision.followup_index, FALSE, reason)

\* the hint rule with the cap compared by > instead of >=
HintRule_gt(st, hint_reply) ==
    IF st.hints_used_stage > hints_per_stage
    THEN Decided(st, <<>>, "HINT", Absent, TRUE, "hint")
    ELSE _handle_hint([st EXCEPT !.hints_used_stage = @ + 1], hint_reply)

\* the hint rule shared by quick action hint and intent ask_hint
HintRule(st, hint_reply) ==
    IF st.hints_used_stage >= hints_per_stage
    THEN Decided(st, <<>>, "HINT", Absent, TRUE, "hint")
    ELSE _handle_hint([st EXCEPT !.hints_used_stage = @ + 1], hint_reply)

ThinkRule(st, clock) ==
    Decided([st EXCEPT !.mem.think_until = clock + think_seconds], <<>>,
            "PAUSE_THINK", Absent, FALSE, "think")

\* the answer rule deciding on the best_of the item had before the evaluation was recorded
AnswerRule_stale(st, eval_reply) ==
    LET competency_id == IF st.mem.competency_id = Missing THEN st.stage ELSE st.mem.competency_id
        item_id == IF st.mem.item_id = Missing
                   THEN (IF Truthy(st.question_id) THEN st.question_id ELSE "")
                   ELSE st.mem.item_id
        fi == IF st.mem.followup_index = Absent THEN 0 ELSE st.mem.followup_index
        calls_oracle == token_count(st.user_msg) >= LOW_CONTENT_TOKENS
        evaluation == score_turn(competency_id, item_id, fi, st.user_msg, st.rubric, eval_reply)
        s1 == [st EXCEPT !.mem.score_cache = record_eval(@, evaluation)]
    IN IF fi = NoneInt \/ competency_id = None \/ item_id = None
       THEN Raised(st, <<>>)
       ELSE IF calls_oracle /\ eval_reply.kind = "raise" THEN Raised(st, <<>>)
       ELSE IF fi < max_followups_per_item /\ _facet_best_of(st) < HIGH_SATISFIED
       THEN _ask(s1, fi + 1)
       ELSE Decided(s1, <<>>, "EVAL_AND_ASK_NEXT", Absent, FALSE, "moved")

\* rule 5: evaluate the answer, record it, follow up or move on
AnswerRule(st, eval_reply) ==
    LET competency_id == IF st.mem.competency_id = Missing THEN st.stage ELSE st.mem.competency_id
        item_id == IF st.mem.item_id = Missing
                   THEN (IF Truthy(st.question_id) THEN st.question_id ELSE "")
                   ELSE st.mem.item_id
        fi == IF st.mem.followup_index = Absent THEN 0 ELSE st.mem.followup_index
        calls_oracle == token_count(st.user_msg) >= LOW_CONTENT_TOKENS
        evaluation == score_turn(competency_id, item_id, fi, st.user_msg, st.rubric, eval_reply)
        s1 == [st EXCEPT !.mem.score_cache = record_eval(@, evaluation)]
    IN IF fi = NoneInt \/ competency_id = None \/ item_id = None
       THEN Raised(st, <<>>)      \* int(None), EvalResult with a None id
       ELSE IF calls_oracle /\ eval_reply.kind = "raise" THEN Raised(st, <<>>)
       ELSE IF fi < max_followups_per_item /\ _facet_best_of(s1) < HIGH_SATISFIED
       THEN _ask(s1, fi + 1)
       ELSE Decided(s1, <<>>, "EVAL_AND_ASK_NEXT", Absent, FALSE, "moved")

IntentRules(st, intent, eval_reply, hint_reply, clock) ==
    IF st.blocks_in_row >= 3
    THEN LET d == _handle_skip([st EXCEPT !.blocks_in_row = 0], "three_blocks")
         IN IF d.raised THEN d ELSE [d EXCEPT !.type = "AUTO_SKIP_MOVED"]
    ELSE IF intent = "ask_hint" THEN HintRule(st, hint_reply)
    ELSE IF intent = "ask_think" THEN ThinkRule(st, clock)
    ELSE IF intent = "ask_pause" THEN Decided(st, <<st>>, "REASK", Absent, FALSE, "pause")
    ELSE IF intent = "ask_clarify" THEN Decided(st, <<>>, "CLARIFY", Absent, FALSE, "clarify")
    ELSE IF intent = "other" THEN Decided(st, <<>>, "REASK", Absent, FALSE, "redirect")
    ELSE IF ~Truthy(st.question_id) THEN _ask(st, 0)
    ELSE IF Truthy(st.user_msg) THEN AnswerRule(st, eval_reply)
    ELSE _reask(st)

\* the flow manager with the block-runaway check placed before the quick actions
handle_blocks_first(st, intent, eval_reply, hint_reply, clock) ==
    LET aid == st.quick_action
        s0 == [st EXCEPT !.quick_action = None]
    IN Finalized(
        IF st.blocks_in_row >= 3 THEN IntentRules(s0, intent, eval_reply, hint_reply, clock)
        ELSE IF aid = None THEN IntentRules(st, intent, eval_reply, hint_reply, clock)
        ELSE IF aid = "repeat" THEN _reask(s0)
        ELSE IF aid = "hint" THEN HintRule(s0, hint_reply)
        ELSE IF aid = "skip" THEN _handle_skip(s0, "user_skip")
        ELSE IF aid = "think_30" THEN ThinkRule(s0, clock)
        ELSE IntentRules(s0, intent, eval_reply, hint_reply, clock))

\* intent is state.latest_intent, which the intent node has set in the same step
handle_after_monitor_and_intent(st, intent, eval_reply, hint_reply, clock) ==
    LET aid == st.quick_action
        s0 == [st EXCEPT !.quick_action = None]
    IN Finalized(
        IF aid = None THEN IntentRules(st, intent, eval_reply, hint_reply, clock)
        ELSE IF aid = "repeat" THEN _reask(s0)
        ELSE IF aid = "hint" THEN HintRule(s0, hint_reply)
        ELSE IF aid = "skip" THEN _handle_skip(s0, "user_skip")
        ELSE IF aid = "think_30" THEN ThinkRule(s0, clock)
        ELSE IntentRules(s0, intent, eval_reply, hint_reply, clock))

(***************************************************************************)
(* The oracles: every reply the bound callables can give, or an exception  *)
(* (transport failure) that propagates to the request.                     *)
(***************************************************************************)
MonitorActions == {"ALLOW", "REDIRECT", "REMIND", "NUDGE_DEPTH", "BLOCK_AND_REFOCUS"}
MonitorOutcomes == MonitorActions \cup {"raise"}
Intents == {"answer", "ask_hint", "ask_clarify", "ask_pause", "ask_think", "other"}
IntentReplies ==
    {[kind |-> "raise", intent |-> "other", confidence |-> 0, rationale |-> ""],
     [kind |-> "invalid", intent |-> "other", confidence |-> 0, rationale |-> ""],
     [kind |-> "valid", intent |-> "answer", confidence |-> 59, rationale |-> "r1"]}
    \cup {[kind |-> "valid", intent |-> i, confidence |-> 60, rationale |-> "r1"] : i \in Intents}
EvalReplies ==
    {[kind |-> "raise", competency_id |-> "", item_id |-> "", criterion_scores |-> <<>>],
     [kind |-> "invalid", competency_id |-> "", item_id |-> "", criterion_scores |-> <<>>],
     [kind |-> "valid", competency_id |-> "", item_id |-> "", criterion_scores |-> <<>>],
     [kind |-> "valid", competency_id |-> "", item_id |-> "",
      criterion_scores |-> <<[id |-> "c1", score |-> 2]>>],
     [kind |-> "valid", competency_id |-> "", item_id |-> "",
      criterion_scores |-> <<[id |-> "c1", score |-> 5]>>]}
HintReplies == {"ok", "raise"}
NoEval == [kind |-> "invalid", competency_id |-> "", item_id |-> "", criterion_scores |-> <<>>]
NoIntent == [kind |-> "invalid", intent |-> "other", confidence |-> 0, rationale |-> ""]

(***************************************************************************)
(* graph/nodes/*.py and graph/build.py: one pipeline step.                 *)
(***************************************************************************)
\* the monitor node with REMIND clearing the counter as ALLOW does
MonitorNode_remind_clears(st, action) ==
    IF action = "BLOCK_AND_REFOCUS" THEN [st EXCEPT !.blocks_in_row = @ + 1]
    ELSE IF action \in {"ALLOW", "REMIND"} THEN [st EXCEPT !.blocks_in_row = 0]
    ELSE st

\* graph/nodes/behavior_monitor.run: the streak counter after the monitor outcome
MonitorNode(st, action) ==
    IF action = "BLOCK_AND_REFOCUS" THEN [st EXCEPT !.blocks_in_row = @ + 1]
    ELSE IF action = "ALLOW" THEN [st EXCEPT !.blocks_in_row = 0]
    ELSE st

\* graph/nodes/intent_classifier.run
\* the value it stores in state.latest_intent
IntentNode(reply) == classify_intent(reply).intent

StepOut(out, monitor, intent) ==
    [st |-> out.st, saved |-> out.saved, monitor |-> monitor, intent |-> intent,
     type |-> out.type, followup_index |-> out.followup_index, exhausted |-> out.exhausted,
     reason |-> out.reason, raised |-> out.raised]

\* a step without the monitor gate: the intent and flow nodes run on every outcome
step_ungated(st, monitor, intent_reply, eval_reply, hint_reply, clock) ==
    IF monitor = "raise" THEN StepOut(Raised(st, <<>>), monitor, None)
    ELSE LET s1 == MonitorNode(st, monitor)
         IN IF intent_reply.kind = "raise" THEN StepOut(Raised(s1, <<>>), monitor, None)
            ELSE LET latest_intent == IntentNode(intent_reply)
                 IN StepOut(handle_after_monitor_and_intent(s1, latest_intent, eval_reply,
                                                            hint_reply, clock),
                            monitor, latest_intent)

step(st, monitor, intent_reply, eval_reply, hint_reply, clock) ==
    IF monitor = "raise" THEN StepOut(Raised(st, <<>>), monitor, None)
    ELSE LET s1 == MonitorNode(st, monitor)
         IN IF monitor # "ALLOW"
            THEN StepOut(Decided(s1, <<>>, "NONE", Absent, FALSE, "monitor_gate"), monitor, None)
            ELSE IF intent_reply.kind = "raise" THEN StepOut(Raised(s1, <<>>), monitor, None)
            ELSE LET latest_intent == IntentNode(intent_reply)
                 IN StepOut(handle_after_monitor_and_intent(s1, latest_intent, eval_reply,
                                                            hint_reply, clock),
                            monitor, latest_intent)

(***************************************************************************)
(* services/sessions.py, graph/checkpointer.py (at the granularity of      *)
(* whole files; the write protocol itself is modelled further down) and    *)
(* services/think_expiry.py.                                               *)
(***************************************************************************)
PERSONA_DEFAULT == "Friendly Expert"

new_session(session_id) ==
    [session_id |-> session_id, persona |-> PERSONA_DEFAULT, stage |-> "warmup",
     question_id |-> None, question_text |-> None,
     user_msg |-> None, queued_user_msg |-> None, quick_action |-> None,
     skip_streak |-> 0, blocks_in_row |-> 0, hints_used_stage |-> 0,
     rubric |-> <<>>,
     mem |-> [competency_id |-> Missing, item_id |-> Missing, followup_index |-> Absent,
              think_until |-> Absent, score_cache |-> EmptyFn]]

\* <<>> when no file is there, <<state>> otherwise
load_checkpoint(d, session_id) ==
    IF FilePath(session_id) \in DOMAIN d THEN <<d[FilePath(session_id)]>> ELSE <<>>

load_session(d, session_id) == load_checkpoint(d, session_id)

save_checkpoint(d, st) ==
    IF FilePath(st.session_id) \in DOMAIN d
    THEN [d EXCEPT ![FilePath(st.session_id)] = st]
    ELSE d @@ (FilePath(st.session_id) :> st)

SaveAll(d, saved) == IF saved = <<>> THEN d ELSE save_checkpoint(d, saved[1])

\* graph/nodes/interrupt_recovery.run with agents/interrupt_recovery.run_resume:
\* the state patch is taken from the checkpoint on disk
interrupt_resume(d, st) ==
    LET ck == load_checkpoint(d, st.session_id)
    IN IF ck = <<>> THEN st
       ELSE LET c == ck[1]
            IN [st EXCEPT
                  !.stage = c.stage,
                  !.question_id = IF c.question_id # None THEN c.question_id ELSE @,
                  !.question_text = IF c.question_text # None THEN c.question_text ELSE @,
                  !.mem.competency_id = IF c.mem.competency_id = Missing THEN None
                                        ELSE c.mem.competency_id,
                  !.mem.item_id = IF c.mem.item_id = Missing THEN None ELSE c.mem.item_id,
                  !.mem.followup_index = IF c.mem.followup_index = Absent THEN NoneInt
                                         ELSE c.mem.followup_index,
                  !.mem.think_until = NoneInt]

\* the expiry test with the deadline itself not counted as expired
ThinkExpired_gt(st, clock) == st.mem.think_until >= 0 /\ clock > st.mem.think_until

\* TRUE when the think timer has expired at time clock
ThinkExpired(st, clock) == st.mem.think_until >= 0 /\ clock >= st.mem.think_until

maybe_resume_think(d, st, clock) ==
    IF ThinkExpired(st, clock) THEN interrupt_resume(d, [st EXCEPT !.mem.think_until = NoneInt])
    ELSE st

\* api/routes.turn, lines 201-214: merging the request into the state
MergeRequest(st, user_msg, quick_action) ==
    IF quick_action # None
    THEN IF Truthy(user_msg)
         THEN [st EXCEPT !.quick_action = quick_action, !.queued_user_msg = user_msg,
                         !.user_msg = None]
         ELSE [st EXCEPT !.quick_action = quick_action, !.user_msg = user_msg]
    ELSE IF user_msg = None /\ Truthy(st.queued_user_msg)
         THEN [st EXCEPT !.quick_action = None, !.user_msg = st.queued_user_msg,
                         !.queued_user_msg = None]
         ELSE [st EXCEPT !.quick_action = None, !.user_msg = user_msg]

(***************************************************************************)
(* api/routes.py: start, turn and finish as request handlers.  A handler   *)
(* works on its own in-memory GraphState between load and save.  A         *)
(* pipeline step is one action: it reads and writes only the handler's     *)
(* state, except for the checkpoint that _ask and ask_pause write.         *)
(***************************************************************************)
SessionIds == {<<"s1">>}
Keys == {<<"s1">>, <<".", "s1">>}
Messages == {None, "full"}
QuickActionIds == {None, "hint", "think_30", "repeat", "skip"}

\* services/qa_policy.py: the two quick-action palettes
STANDARD == <<"hint", "think_30", "repeat", "skip">>
NUDGE == <<"hint", "think_30">>

\* the palette rule with the streak of three itself still on the full palette
row_gt(skip_streak) == IF skip_streak > 3 THEN NUDGE ELSE STANDARD

\* services/qa_policy.row
row(skip_streak) == IF skip_streak >= 3 THEN NUDGE ELSE STANDARD

\* api/routes._emit_quick_actions
_emit_quick_actions(st) == row(st.skip_streak)

\* agents/behavior_monitor.default_quick_actions: the palette of a gated message
\* when the monitor oracle recommends nothing of its own
default_quick_actions(action) ==
    IF action = "REMIND" THEN <<"hint", "think_30", "repeat", "skip">>
    ELSE IF action \in {"REDIRECT", "NUDGE_DEPTH"} THEN <<"hint", "repeat", "skip">>
    ELSE IF action = "BLOCK_AND_REFOCUS" THEN <<"repeat">>
    ELSE <<>>

\* the response of a request: none until the handler returns one
NoResp == [source |-> "none", quick_actions |-> <<>>, skip_streak |-> Absent]

\* api/routes._resp_from_state with _decision_to_payload: where the payload comes
\* from and the palette of the response.  A flow decision and the resume payload
\* carry no quick_actions key, the monitor gate carries the monitor's palette and
\* finish carries an empty one.  skip_streak is the one reported in ui_state.
_resp_from_state(kind, st, result) ==
    LET quick_actions ==
            IF kind = "finish" THEN <<>>
            ELSE IF kind = "resume" \/ result.monitor = "ALLOW" THEN _emit_quick_actions(st)
            ELSE IF default_quick_actions(result.monitor) = <<>> THEN _emit_quick_actions(st)
            ELSE default_quick_actions(result.monitor)
        source == IF kind \in {"finish", "resume"} THEN kind
                  ELSE IF result.monitor = "ALLOW" THEN "decision" ELSE "monitor_gate"
    IN [source |-> source, quick_actions |-> quick_actions, skip_streak |-> st.skip_streak]

NoResult ==
    [monitor |-> None, intent |-> None, type |-> "NONE", followup_index |-> Absent,
     exhausted |-> FALSE, reason |-> "none", before |-> <<>>, after |-> <<>>]

\* the inputs of a request: none for start, finish and the resume response
NoReq == [user_msg |-> None, quick_action |-> None]

IdleWorker ==
    [pc |-> "idle", kind |-> "none", st |-> <<>>, pre |-> <<>>, req |-> NoReq, resp |-> NoResp,
     result |-> NoResult, outcome |-> "none"]

Busy(w) == workers[w].pc # "idle"

\* POST /start: new_session; the step runs next
Start(w, sid) ==
    /\ ~Busy(w) /\ budget > 0
    /\ FilePath(sid) \notin DOMAIN disk
    /\ \A v \in DOMAIN workers : Busy(v) => workers[v].st[1].session_id # sid
    /\ workers' = [workers EXCEPT ![w] =
            [pc |-> "step1", kind |-> "start", st |-> <<new_session(sid)>>,
             pre |-> <<>>, req |-> NoReq, resp |-> NoResp, result |-> NoResult, outcome |-> "none"]]
    /\ budget' = budget - 1
    /\ UNCHANGED <<disk, now, blockRun>>

\* POST /turn up to the first step: load, think-timer check, request merge
TurnLoad(w, key, user_msg, quick_action) ==
    /\ ~Busy(w) /\ budget > 0
    /\ LET ck == load_session(disk, key)
       IN workers' = [workers EXCEPT ![w] =
            IF ck = <<>>
            THEN [IdleWorker EXCEPT !.outcome = "not_found"]
            ELSE IF ThinkExpired(ck[1], now)
            THEN [pc |-> "save", kind |-> "resume",
                  st |-> <<maybe_resume_think(disk, ck[1], now)>>, pre |-> ck,
                  req |-> NoReq, resp |-> NoResp, result |-> NoResult, outcome |-> "none"]
            ELSE [pc |-> "step1", kind |-> "turn",
                  st |-> <<MergeRequest(ck[1], user_msg, quick_action)>>, pre |-> ck,
                  req |-> [user_msg |-> user_msg, quick_action |-> quick_action],
                  resp |-> NoResp,
                  result |-> NoResult, outcome |-> "none"]]
    /\ budget' = budget - 1
    /\ UNCHANGED <<disk, now, blockRun>>

\* a variant that saves the state without clearing the request's inputs comes first
AfterStep_keeps_input(kind, pc, st) ==
    IF kind = "start" THEN [pc |-> "save", st |-> st]
    ELSE IF pc = "step1" /\ Truthy(st.queued_user_msg) /\ ~Truthy(st.user_msg)
    THEN [pc |-> "step2",
          st |-> [st EXCEPT !.user_msg = st.queued_user_msg, !.queued_user_msg = None]]
    ELSE [pc |-> "save", st |-> st]

\* the state with which the handler goes on after a step that returned
AfterStep(kind, pc, st) ==
    IF kind = "start" THEN [pc |-> "save", st |-> st]
    ELSE IF pc = "step1" /\ Truthy(st.queued_user_msg) /\ ~Truthy(st.user_msg)
    THEN [pc |-> "step2",
          st |-> [st EXCEPT !.user_msg = st.queued_user_msg, !.queued_user_msg = None]]
    ELSE [pc |-> "save", st |-> [st EXCEPT !.user_msg = None, !.quick_action = None]]

\* every outcome graph.build.step can have on a state: one per combination of oracle replies
StepOutcomes(st, clock) ==
    {step(st, monitor, NoIntent, NoEval, "ok", clock) : monitor \in MonitorOutcomes \ {"ALLOW"}}
    \cup {step(st, "ALLOW", intent_reply, eval_reply, hint_reply, clock) :
             intent_reply \in IntentReplies, eval_reply \in EvalReplies,
             hint_reply \in HintReplies}

\* what a step with outcome out does to the handler and to the disk; error is the
\* way the request ends when the step raises
StepDone(w, out, error) ==
    LET me == workers[w]
        res == [monitor |-> out.monitor, intent |-> out.intent, type |-> out.type,
                followup_index |-> out.followup_index, exhausted |-> out.exhausted,
                reason |-> out.reason, before |-> me.st, after |-> <<out.st>>]
        next == AfterStep(me.kind, me.pc, out.st)
    IN /\ disk' = SaveAll(disk, out.saved)
       /\ workers' = [workers EXCEPT ![w] =
            IF out.raised
            THEN [IdleWorker EXCEPT !.pre = me.pre, !.outcome = error]
            ELSE [me EXCEPT !.pc = next.pc, !.st = <<next.st>>, !.result = res]]
       /\ blockRun' = IF out.monitor = "raise" THEN blockRun
                      ELSE IF out.monitor # "BLOCK_AND_REFOCUS" THEN 0
                      ELSE IF me.kind = "turn" /\ me.pc = "step1" THEN blockRun + 1
                      ELSE blockRun
       /\ UNCHANGED <<now, budget>>

\* graph.build.step inside start / turn, with the checkpoint written inside the step
Step(w) ==
    /\ workers[w].pc \in {"step1", "step2"}
    /\ \E out \in StepOutcomes(workers[w].st[1], now) : StepDone(w, out, "error")

\* the save_checkpoint that ends start, turn (also the resume response) and finish,
\* and the response assembled from the saved state
Save(w) ==
    /\ workers[w].pc = "save"
    /\ disk' = save_checkpoint(disk, workers[w].st[1])
    /\ workers' = [workers EXCEPT ![w] =
            [IdleWorker EXCEPT !.outcome = "ok",
                               !.resp = _resp_from_state(workers[w].kind, workers[w].st[1],
                                                         workers[w].result)]]
    /\ UNCHANGED <<now, budget, blockRun>>

\* POST /finish up to its save: load, finalize_overall
Finish(w, key) ==
    /\ ~Busy(w) /\ budget > 0
    /\ LET ck == load_session(disk, key)
       IN workers' = [workers EXCEPT ![w] =
            IF ck = <<>>
            THEN [IdleWorker EXCEPT !.outcome = "not_found"]
            ELSE [pc |-> "save", kind |-> "finish", st |-> ck, pre |-> ck, req |-> NoReq, resp |-> NoResp,
                  result |-> NoResult, outcome |-> "none"]]
    /\ budget' = budget - 1
    /\ UNCHANGED <<disk, now, blockRun>>

Tick ==
    /\ now + think_seconds <= MaxClock
    /\ now' = now + think_seconds
    /\ UNCHANGED <<disk, workers, budget, blockRun>>

NothingWritten == [started |-> {}, last |-> EmptyFn]
FileIdle ==
    /\ files = EmptyFn /\ names = EmptyFn /\ writers = EmptyFn
    /\ loaded = <<>> /\ written = NothingWritten
ScoreIdle == cache = EmptyFn /\ lastScoreOp = <<>>
AdvIdle == ctx = <<>> /\ lastPlan = <<>>
NoCall ==
    [op |-> "none", session_id |-> None, outcome |-> "none", completed |-> FALSE,
     state |-> <<>>]
SessIdle == store = EmptyFn /\ issued = EmptyFn /\ lastCall = NoCall /\ utcnow = 0
NoMonitorCall ==
    [run |-> 0, user_msg |-> <<>>, cosine |-> 0, reply |-> None, forced |-> None,
     action |-> None, outcome |-> "none"]
GatewayIdle == threads = EmptyFn /\ locks = EmptyFn /\ callsLeft = 0
MonitorIdle == flags = <<>> /\ monitorCall = NoMonitorCall
PairIdle == pair = EmptyFn /\ pairTurns = 0
NoTally == [saved |-> 0, run |-> 0]
NoEvalCall == [n |-> 0, candidate_reply |-> None, rubric |-> <<>>, reply |-> <<>>, result |-> <<>>]
ExtraIdle == blockTally = NoTally /\ skipTally = NoTally /\ evalCall = NoEvalCall
             /\ safetyCall = <<>>
AgentIdle == intentCall = <<>> /\ MonitorIdle /\ GatewayIdle /\ PairIdle /\ ExtraIdle

Init ==
    /\ disk = EmptyFn
    /\ workers = [w \in {"w1"} |-> IdleWorker]
    /\ now = 0
    /\ budget = MaxRequests
    /\ blockRun = 0
    /\ FileIdle /\ ScoreIdle /\ AdvIdle /\ SessIdle /\ AgentIdle

Next ==
    \/ \E w \in DOMAIN workers, sid \in SessionIds :
          Start(w, sid) /\ UNCHANGED <<fileVars, scoreVars, advVars, sessVars, agentVars>>
    \/ \E w \in DOMAIN workers, key \in Keys, user_msg \in Messages, quick_action \in QuickActionIds :
          TurnLoad(w, key, user_msg, quick_action) /\ UNCHANGED <<fileVars, scoreVars, advVars, sessVars, agentVars>>
    \/ \E w \in DOMAIN workers : Step(w) /\ UNCHANGED <<fileVars, scoreVars, advVars, sessVars, agentVars>>
    \/ \E w \in DOMAIN workers : Save(w) /\ UNCHANGED <<fileVars, scoreVars, advVars, sessVars, agentVars>>
    \/ \E w \in DOMAIN workers, key \in Keys :
          Finish(w, key) /\ UNCHANGED <<fileVars, scoreVars, advVars, sessVars, agentVars>>
    \/ Tick /\ UNCHANGED <<fileVars, scoreVars, advVars, sessVars, agentVars>>

Spec == Init /\ [][Next]_vars

(***************************************************************************)
(* The same handlers with two requests in flight at once.                  *)
(***************************************************************************)
InitConc ==
    /\ disk = EmptyFn
    /\ workers = [w \in {"w1", "w2"} |-> IdleWorker]
    /\ now = 0
    /\ budget = MaxConcRequests
    /\ blockRun = 0
    /\ FileIdle /\ ScoreIdle /\ AdvIdle /\ SessIdle /\ AgentIdle

\* the requests issued concurrently: turns that carry an answer, and finish
NextConc ==
    \/ \E w \in DOMAIN workers, sid \in SessionIds :
          Start(w, sid) /\ UNCHANGED <<fileVars, scoreVars, advVars, sessVars, agentVars>>
    \/ \E w \in DOMAIN workers, sid \in SessionIds :
          TurnLoad(w, sid, "full", None) /\ UNCHANGED <<fileVars, scoreVars, advVars, sessVars, agentVars>>
    \/ \E w \in DOMAIN workers : Step(w) /\ UNCHANGED <<fileVars, scoreVars, advVars, sessVars, agentVars>>
    \/ \E w \in DOMAIN workers : Save(w) /\ UNCHANGED <<fileVars, scoreVars, advVars, sessVars, agentVars>>
    \/ \E w \in DOMAIN workers, sid \in SessionIds :
          Finish(w, sid) /\ UNCHANGED <<fileVars, scoreVars, advVars, sessVars, agentVars>>

SpecConc == InitConc /\ [][NextConc]_vars

(***************************************************************************)
(* Properties of the turn controller.                                      *)
(***************************************************************************)
\* the session a handler in flight works on
SessionOf(w) == workers[w].st[1].session_id

\* C1: turn processing is serialized per session: while a request for a
\* session is between loading the checkpoint and saving it, no other request
\* for the same session is between its load and its save.
C1_TurnsSerialized ==
    \A v, w \in DOMAIN workers :
        (v # w /\ Busy(v) /\ Busy(w)) => SessionOf(v) # SessionOf(w)

\* C2: when a request has failed in its pipeline, the checkpoint on disk is
\* the checkpoint that existed before the request.
C2_FailedTurnLeavesCheckpoint ==
    \A w \in DOMAIN workers, sid \in SessionIds :
        workers[w].outcome = "error" => load_checkpoint(disk, sid) = workers[w].pre

\* C6: every stored followup_index is in {0,1,2} (at most
\* max_followups_per_item), and no ASK decision carries a larger one.
C6_FollowupIndexInRange ==
    /\ \A path \in DOMAIN disk :
          disk[path].mem.followup_index \in {Absent} \cup (0..max_followups_per_item)
    /\ \A w \in DOMAIN workers :
          workers[w].result.type = "ASK"
              => workers[w].result.followup_index \in 0..max_followups_per_item

\* C8: on the third consecutive turn with a BLOCK_AND_REFOCUS monitor outcome
\* the decision is AUTO_SKIP_MOVED and blocks_in_row is left at 0.
C8_ThirdBlockAutoSkips ==
    \A w \in DOMAIN workers :
        LET r == workers[w].result
        IN (blockRun = 3 /\ r.monitor = "BLOCK_AND_REFOCUS")
              => r.type = "AUTO_SKIP_MOVED" /\ r.after[1].blocks_in_row = 0

\* a step that the routing took to the hint rule: quick action hint, or
\* intent ask_hint without a quick action
HintRequest(r) ==
    /\ r.before # <<>>
    /\ r.monitor = "ALLOW"
    /\ \/ r.before[1].quick_action = "hint"
       \/ r.before[1].quick_action = None /\ r.intent = "ask_hint"

\* C9: hints_used_stage never exceeds hints_per_stage; a hint request below
\* the cap adds exactly 1 and emits HINT, a hint request at the cap emits
\* HINT with exhausted = true and leaves the counter unchanged.
C9_HintCap ==
    /\ \A path \in DOMAIN disk : disk[path].hints_used_stage <= hints_per_stage
    /\ \A w \in DOMAIN workers :
          LET r == workers[w].result
          IN /\ Busy(w) => workers[w].st[1].hints_used_stage <= hints_per_stage
             /\ HintRequest(r) =>
                   /\ r.type = "HINT"
                   /\ IF r.before[1].hints_used_stage < hints_per_stage
                      THEN /\ r.after[1].hints_used_stage = r.before[1].hints_used_stage + 1
                           /\ ~r.exhausted
                      ELSE /\ r.after[1].hints_used_stage = r.before[1].hints_used_stage
                           /\ r.exhausted

\* a hint request made with the counter at the cap
C9_Witness ==
    \E w \in DOMAIN workers :
        /\ HintRequest(workers[w].result)
        /\ workers[w].result.before[1].hints_used_stage = hints_per_stage
        /\ workers[w].result.exhausted

\* C10: over a step, skip_streak grows by exactly 1 on a skip, is reset to 0
\* on ASK / EVAL_AND_ASK_NEXT / AUTO_SKIP_MOVED emitted at or above the nudge
\* threshold, and is unchanged otherwise; loading and merging a request
\* leave it as it is in the checkpoint.
C10_SkipStreakRule ==
    \A w \in DOMAIN workers :
        LET r == workers[w].result
        IN /\ (workers[w].pc = "step1" /\ workers[w].pre # <<>>)
                 => workers[w].st[1].skip_streak = workers[w].pre[1].skip_streak
           /\ r.before # <<>> =>
                 LET b == r.before[1].skip_streak
                     a == r.after[1].skip_streak
                 IN IF r.type = "SKIP_AND_NEXT" THEN a = b + 1
                    ELSE IF r.reason = "three_blocks"
                    THEN a = IF b + 1 >= nudge_after_consecutive_skips THEN 0 ELSE b + 1
                    ELSE IF r.type \in {"ASK", "EVAL_AND_ASK_NEXT", "AUTO_SKIP_MOVED"}
                    THEN a = IF b >= nudge_after_consecutive_skips THEN 0 ELSE b
                    ELSE a = b

\* a question asked with the streak at the threshold: the streak is reset
C10_Witness ==
    \E w \in DOMAIN workers :
        LET r == workers[w].result
        IN /\ r.before # <<>>
           /\ r.type = "ASK"
           /\ r.before[1].skip_streak >= nudge_after_consecutive_skips
           /\ r.after[1].skip_streak = 0

(***************************************************************************)
(* services/scoring.py on its own: any sequence of record_eval and         *)
(* mark_skip calls on one score cache, with every overall an evaluation    *)
(* can carry.                                                              *)
(***************************************************************************)
ScoreComps == {"ARCH"}
ScoreItems == {"ARCH_01", "ARCH_02"}
Overalls == {0, 10, 30, 50}

\* the number of operations a cache has seen
OpsDone(competencies) ==
    LET RECURSIVE items(_, _)
        items(b, S) == IF S = {} THEN 0
                       ELSE LET i == CHOOSE x \in S : TRUE
                            IN Len(b.items[i].turns) + items(b, S \ {i})
        RECURSIVE comps(_)
        comps(S) == IF S = {} THEN 0
                    ELSE LET c == CHOOSE x \in S : TRUE
                         IN competencies[c].skipped_count
                            + items(competencies[c], DOMAIN competencies[c].items)
                            + comps(S \ {c})
    IN comps(DOMAIN competencies)

RecordEval(competency_id, item_id, overall) ==
    /\ OpsDone(cache) < MaxScoreOps
    /\ cache' = record_eval(cache, [competency_id |-> competency_id, item_id |-> item_id,
                                    overall |-> overall])
    /\ lastScoreOp' = <<[op |-> "record_eval", competency_id |-> competency_id,
                         item_id |-> item_id, overall |-> overall, before |-> cache]>>

MarkSkip(competency_id, item_id) ==
    /\ OpsDone(cache) < MaxScoreOps
    /\ cache' = mark_skip(cache, competency_id, item_id)
    /\ lastScoreOp' = <<[op |-> "mark_skip", competency_id |-> competency_id,
                         item_id |-> item_id, overall |-> 0, before |-> cache]>>

MainIdle ==
    /\ disk = EmptyFn /\ workers = EmptyFn /\ now = 0 /\ budget = 0 /\ blockRun = 0

InitScoring == MainIdle /\ FileIdle /\ ScoreIdle /\ AdvIdle /\ SessIdle /\ AgentIdle

NextScoring ==
    \/ \E c \in ScoreComps, i \in ScoreItems, o \in Overalls :
          RecordEval(c, i, o) /\ UNCHANGED <<mainVars, fileVars, advVars, sessVars, agentVars>>
    \/ \E c \in ScoreComps, i \in ScoreItems :
          MarkSkip(c, i) /\ UNCHANGED <<mainVars, fileVars, advVars, sessVars, agentVars>>

SpecScoring == InitScoring /\ [][NextScoring]_vars

\* the entry of an item in a cache: <<>> when the item is not there
EntryOf(competencies, competency_id, item_id) ==
    IF competency_id \in DOMAIN competencies
       /\ item_id \in DOMAIN competencies[competency_id].items
    THEN <<competencies[competency_id].items[item_id]>>
    ELSE <<>>

\* C5: best_of of every item never decreases over record_eval and mark_skip;
\* after record_eval it is the maximum of the previous best_of (1.0 for a
\* new item) and the overall recorded; mark_skip leaves an existing best_of
\* as it is.
C5_BestOfMonotone ==
    lastScoreOp # <<>> =>
        LET o == lastScoreOp[1]
            old == EntryOf(o.before, o.competency_id, o.item_id)
            new == EntryOf(cache, o.competency_id, o.item_id)
            prev == IF old = <<>> THEN 10 ELSE old[1].best_of
        IN /\ new # <<>>
           /\ \A c \in ScoreComps, i \in ScoreItems :
                 EntryOf(o.before, c, i) # <<>> =>
                    /\ EntryOf(cache, c, i) # <<>>
                    /\ EntryOf(cache, c, i)[1].best_of >= EntryOf(o.before, c, i)[1].best_of
           /\ o.op = "record_eval" =>
                 new[1].best_of = IF o.overall > prev THEN o.overall ELSE prev
           /\ o.op = "mark_skip" => new[1].best_of = prev

\* an evaluation below the item's best_of has been recorded
C5_Witness ==
    /\ lastScoreOp # <<>>
    /\ lastScoreOp[1].op = "record_eval"
    /\ LET o == lastScoreOp[1]
           old == EntryOf(o.before, o.competency_id, o.item_id)
       IN /\ old # <<>>
          /\ old[1].best_of > 10
          /\ o.overall < old[1].best_of
          /\ EntryOf(cache, o.competency_id, o.item_id)[1].best_of = old[1].best_of

(***************************************************************************)
(* graph/checkpointer.py at the level of the file system: open(tmp, "w")   *)
(* creates or truncates the file the name refers to, json.dump reaches the *)
(* file in chunks at the writer's own offset, os.replace moves the name.   *)
(* A file is a sequence of chunks; a chunk that was never written is a     *)
(* hole.                                                                   *)
(***************************************************************************)
FSessionIds == {<<"s1">>}
FKeys == {<<"s1">>, <<".", "s1">>, <<"..", "s1">>, <<"s2">>}
FStates ==
    [session_id : FSessionIds, skip_streak : 0..1, question_id : {None, "WU_01"}]

Hole == [kind |-> "hole", text |-> <<>>]

\* json.dump(state.model_dump()): the text, in the two chunks that reach the file
Serialize(st) ==
    << [kind |-> "head",
        text |-> << <<"session_id", <<"str", st.session_id>> >>,
                    <<"skip_streak", <<"num", st.skip_streak>> >> >>],
       [kind |-> "tail",
        text |-> << <<"question_id", IF st.question_id = None THEN <<"null">>
                                     ELSE <<"str", st.question_id>> >> >>] >>

\* GraphState(**json.load(handle)): the state, or an error for text that is no document
Deserialize(content) ==
    IF Len(content) = 2 /\ content[1].kind = "head" /\ content[2].kind = "tail"
    THEN [kind |-> "state",
          state |-> <<[session_id |-> content[1].text[1][2][2],
                       skip_streak |-> content[1].text[2][2][2],
                       question_id |-> IF content[2].text[1][2][1] = "null" THEN None
                                       ELSE content[2].text[1][2][2]]>>]
    ELSE [kind |-> "error", state |-> <<>>]

\* tmp_path = path + ".tmp"
TmpPath(path) == [path EXCEPT ![Len(path)] = Append(@, ".tmp")]

\* a write of one chunk at an offset: what lies before it and was never written is a hole
WriteAt(content, offset, chunk) ==
    [i \in 1..(IF Len(content) > offset + 1 THEN Len(content) ELSE offset + 1) |->
        IF i = offset + 1 THEN chunk
        ELSE IF i <= Len(content) THEN content[i] ELSE Hole]

WriterIds == <<"a", "b">>
IdleWriter == [pc |-> "idle", st |-> <<>>, fd |-> 0, pos |-> 0, saves |-> 0]

\* save_checkpoint, line 22: open(tmp_path, "w")
SaveOpen(w, st) ==
    LET tmp == Resolve(TmpPath(_checkpoint_path(st.session_id)))
        inode == IF tmp \in DOMAIN names THEN names[tmp] ELSE Cardinality(DOMAIN files) + 1
    IN /\ writers[w].pc = "idle"
       /\ SumSeq([i \in 1..Len(WriterIds) |->
                     IF WriterIds[i] \in DOMAIN writers THEN writers[WriterIds[i]].saves
                     ELSE 0]) < MaxSaves
       /\ files' = [i \in DOMAIN files \cup {inode} |-> IF i = inode THEN <<>> ELSE files[i]]
       /\ names' = [n \in DOMAIN names \cup {tmp} |-> IF n = tmp THEN inode ELSE names[n]]
       /\ writers' = [writers EXCEPT ![w] =
              [pc |-> "write", st |-> <<st>>, fd |-> inode, pos |-> 0, saves |-> @.saves + 1]]
       /\ written' = [written EXCEPT !.started = @ \cup {st}]
       /\ UNCHANGED loaded

\* save_checkpoint, lines 23-25: one chunk of the dump reaches the file
SaveWrite(w) ==
    LET me == writers[w]
        chunks == Serialize(me.st[1])
    IN /\ me.pc = "write"
       /\ files' = [files EXCEPT ![me.fd] = WriteAt(@, me.pos, chunks[me.pos + 1])]
       /\ writers' = [writers EXCEPT ![w].pos = me.pos + 1,
                                     ![w].pc = IF me.pos + 1 = Len(chunks) THEN "rename"
                                               ELSE "write"]
       /\ UNCHANGED <<names, loaded, written>>

\* save_checkpoint, line 26: os.replace(tmp_path, path); it raises when the
\* temporary name is gone
SaveRename(w) ==
    LET me == writers[w]
        path == Resolve(_checkpoint_path(me.st[1].session_id))
        tmp == Resolve(TmpPath(_checkpoint_path(me.st[1].session_id)))
    IN /\ me.pc = "rename"
       /\ IF tmp \in DOMAIN names
          THEN /\ names' = [n \in (DOMAIN names \cup {path}) \ {tmp} |->
                              IF n = path THEN names[tmp] ELSE names[n]]
               /\ written' = [written EXCEPT !.last =
                      [k \in DOMAIN @ \cup {me.st[1].session_id} |->
                          IF k = me.st[1].session_id THEN me.st[1] ELSE @[k]]]
          ELSE UNCHANGED <<names, written>>
       /\ writers' = [writers EXCEPT ![w] = [IdleWriter EXCEPT !.saves = me.saves]]
       /\ UNCHANGED <<files, loaded>>

\* load_checkpoint(session_id) on the files
Load(key) ==
    LET path == Resolve(_checkpoint_path(key))
    IN /\ loaded' = <<[key |-> key,
                       result |-> IF path \notin DOMAIN names
                                  THEN [kind |-> "absent", state |-> <<>>]
                                  ELSE Deserialize(files[names[path]])]>>
       /\ UNCHANGED <<files, names, writers, written>>

InitFile ==
    /\ MainIdle /\ ScoreIdle /\ AdvIdle /\ SessIdle /\ AgentIdle
    /\ files = EmptyFn /\ names = EmptyFn
    /\ writers = [w \in {"a", "b"} |-> IdleWriter]
    /\ loaded = <<>> /\ written = NothingWritten

NextFile ==
    \/ \E w \in DOMAIN writers, st \in FStates :
          SaveOpen(w, st) /\ UNCHANGED <<mainVars, scoreVars, advVars, sessVars, agentVars>>
    \/ \E w \in DOMAIN writers : SaveWrite(w) /\ UNCHANGED <<mainVars, scoreVars, advVars, sessVars, agentVars>>
    \/ \E w \in DOMAIN writers : SaveRename(w) /\ UNCHANGED <<mainVars, scoreVars, advVars, sessVars, agentVars>>
    \/ \E key \in FKeys : Load(key) /\ UNCHANGED <<mainVars, scoreVars, advVars, sessVars, agentVars>>

\* save_checkpoint calls that overlap
SpecFile == InitFile /\ [][NextFile]_vars

\* one save_checkpoint at a time
InitRoundTrip ==
    /\ MainIdle /\ ScoreIdle /\ AdvIdle /\ SessIdle /\ AgentIdle
    /\ files = EmptyFn /\ names = EmptyFn
    /\ writers = [w \in {"a"} |-> IdleWriter]
    /\ loaded = <<>> /\ written = NothingWritten

SpecRoundTrip == InitRoundTrip /\ [][NextFile]_vars

\* C3: a load_checkpoint at any moment, also while save_checkpoint calls for
\* the session are in progress, returns absent or a complete state that some
\* save_checkpoint call wrote, never a partial or mixed one.
C3_LoadsAreComplete ==
    loaded # <<>> =>
        \/ loaded[1].result.kind = "absent"
        \/ /\ loaded[1].result.kind = "state"
           /\ loaded[1].result.state[1] \in written.started

\* C4: load_checkpoint(s.session_id) after save_checkpoint(s) returns a state
\* equal to s, the latest one saved, and a session id that was never saved
\* loads as absent.
C4_RoundTrip ==
    loaded # <<>> =>
        IF loaded[1].key \in DOMAIN written.last
        THEN loaded[1].result = [kind |-> "state", state |-> <<written.last[loaded[1].key]>>]
        ELSE \/ loaded[1].result.kind = "absent"
             \/ \E w \in DOMAIN writers :
                   writers[w].pc # "idle" /\ writers[w].st[1].session_id = loaded[1].key

(***************************************************************************)
(* The flow_manager package: start_session and advance_session on an       *)
(* InterviewContext, with the evaluator oracle returning any plan its      *)
(* schema admits.  Only the fields that rubric tracking reads or writes    *)
(* are kept; covered criteria are kept as sets; asked is the number of     *)
(* interviewer questions in the history.  The names of the universe carry  *)
(* no surplus white space, so _clean_line leaves them as they are.         *)
(***************************************************************************)
competency_pillars == <<"Systems Design", "Coding">>
competency_criteria ==
    [c \in {"Systems Design", "Coding"} |->
        IF c = "Coding" THEN <<"Correctness">> ELSE <<"Scalability", "Tradeoffs", "Reliability">>]
CompetencyNames == {"Systems Design", "systems design"}
CriterionNames == {"Scalability", "scalability", "Tradeoffs"}
LevelChoices == {0, 2, 4}
ScoreChoices == {20, 40}

\* str.lower()
Lower(name) ==
    CASE name = "Systems Design" -> "systems design"
      [] name = "Scalability" -> "scalability"
      [] name = "Tradeoffs" -> "tradeoffs"
      [] name = "Reliability" -> "reliability"
      [] OTHER -> name

\* dict.get(k, default) and d[k] = v
Get(f, k, default) == IF k \in DOMAIN f THEN f[k] ELSE default
Put(f, k, v) == [x \in DOMAIN f \cup {k} |-> IF x = k THEN v ELSE f[x]]
MaxOf(S) == CHOOSE m \in S : \A x \in S : x <= m

\* the plans the evaluator oracle returns: no score, or one score with at most one level
Plans ==
    {<<>>} \cup
    {<<[competency |-> c, score |-> v, criterion_levels |-> EmptyFn]>> :
        c \in CompetencyNames, v \in ScoreChoices} \cup
    {<<[competency |-> c, score |-> v, criterion_levels |-> (k :> l)]>> :
        c \in CompetencyNames, v \in ScoreChoices, k \in CriterionNames, l \in LevelChoices}

_clamp_level(raw) == IF raw < 0 THEN 0 ELSE IF raw > 5 THEN 5 ELSE raw

_normalize_level(value) == IF value < 0 THEN 0 ELSE IF value > 5 THEN 5 ELSE value

\* lower-cased criterion name -> the rubric's label (a later label wins)
_build_lookup(criteria) ==
    [k \in {Lower(criteria[i]) : i \in 1..Len(criteria)} |->
        criteria[MaxOf({i \in 1..Len(criteria) : Lower(criteria[i]) = k})]]

\* the levels a mapping holds for the rubric label c, clamped
LevelsFor(levels, lookup, c) ==
    {_clamp_level(levels[raw]) :
        raw \in {r \in DOMAIN levels : Lower(r) \in DOMAIN lookup /\ lookup[Lower(r)] = c}}

\* existing: <<>> or <<CompetencyScore>>
_normalize_score(score, rubric, existing, baseline) ==
    LET clamped == IF score.score < 0 THEN 0 ELSE IF score.score > 50 THEN 50 ELSE score.score
        value == IF existing # <<>> /\ existing[1].score > clamped THEN existing[1].score
                 ELSE clamped
        lookup == _build_lookup(rubric)
        labels == {lookup[k] : k \in DOMAIN lookup}
        prior(c) == MaxOf({0}
                          \cup (IF existing # <<>>
                                THEN LevelsFor(existing[1].criterion_levels, lookup, c) ELSE {})
                          \cup LevelsFor(baseline, lookup, c))
        incoming(c) == LevelsFor(score.criterion_levels, lookup, c)
        candidate(c) == IF incoming(c) = {} THEN prior(c) ELSE MaxOf(incoming(c))
        normalized_levels ==
            IF DOMAIN lookup # {}
            THEN [c \in labels |-> IF candidate(c) > prior(c) THEN candidate(c) ELSE prior(c)]
            ELSE [k \in DOMAIN score.criterion_levels |-> _clamp_level(score.criterion_levels[k])]
    IN [competency |-> score.competency, score |-> value, criterion_levels |-> normalized_levels]

\* _normalize_score with the rubric and the baseline looked up case-insensitively
\* is what EvaluatorAgent.invoke does not do: it looks them up by the raw name
EvaluatorAgent_invoke(context, plan) ==
    [i \in 1..Len(plan) |->
        _normalize_score(plan[i],
                         Get(competency_criteria, plan[i].competency, <<>>),
                         IF plan[i].competency \in DOMAIN context.scores
                         THEN <<context.scores[plan[i].competency]>> ELSE <<>>,
                         Get(context.competency_criterion_levels, plan[i].competency, EmptyFn))]

_seed_competency_context(context) ==
    IF Len(competency_pillars) = 0 THEN context
    ELSE LET last == Len(competency_pillars) - 1
             index == IF context.competency_index < last THEN context.competency_index ELSE last
             name == IF Truthy(context.competency) THEN context.competency
                     ELSE competency_pillars[index + 1]
         IN [context EXCEPT
               !.competency_index = index,
               !.competency = name,
               !.competency_low_scores = IF name \in DOMAIN @ THEN @ ELSE Put(@, name, 0),
               !.competency_covered = IF name \in DOMAIN @ THEN @ ELSE Put(@, name, {}),
               !.competency_criterion_levels = IF name \in DOMAIN @ THEN @
                                               ELSE Put(@, name, EmptyFn)]

_stage_for_question(question_number, warmup_limit) ==
    IF warmup_limit <= 0 THEN "competency"
    ELSE IF question_number <= warmup_limit THEN "warmup" ELSE "competency"

\* <<>> or <<the first score whose competency matches, ignoring case>>
_find_score(plan, competency) ==
    LET hits == {i \in 1..Len(plan) : Lower(plan[i].competency) = Lower(competency)}
    IN IF hits = {} THEN <<>>
       ELSE <<plan[CHOOSE i \in hits : \A j \in hits : i <= j]>>

\* the criteria a plan touches through its criterion levels (the plans carry no notes)
_extract_criteria_hits(plan, criteria, competency) ==
    {criteria[idx] : idx \in {i \in 1..Len(criteria) :
        \E s \in 1..Len(plan) :
            /\ Lower(plan[s].competency) = Lower(competency)
            /\ \E name \in DOMAIN plan[s].criterion_levels :
                  plan[s].criterion_levels[name] > 0 /\ Lower(name) = Lower(criteria[i])}}

\* a plan names each rubric label at most once, so the last update of a label is its only one
_merge_levels(existing, updates, lookup) ==
    LET named == {r \in DOMAIN updates : Lower(r) \in DOMAIN lookup}
        touched == {lookup[Lower(r)] : r \in named}
        level(c) == MaxOf({_normalize_level(updates[r]) :
                              r \in {x \in named : lookup[Lower(x)] = c}})
    IN [levels |-> [c \in DOMAIN existing \cup touched |->
                       IF c \in touched THEN level(c) ELSE existing[c]],
        hits |-> {c \in touched : level(c) > 0}]

_coverage_sufficient(criteria, covered) ==
    LET total == Len(criteria)
        unique == covered \cap {criteria[i] : i \in 1..total}
    IN IF total = 0 THEN TRUE
       ELSE IF total = 1 THEN Cardinality(unique) >= 1
       ELSE Cardinality(unique) >= total - 1

_update_competency_tracking(context, plan) ==
    LET current == context.competency
        criteria == Get(competency_criteria, current, <<>>)
        covered == Get(context.competency_covered, current, {})
        lookup == _build_lookup(criteria)
        hits == _extract_criteria_hits(plan, criteria, current)
        existing_levels == Get(context.competency_criterion_levels, current, EmptyFn)
        score_entry == _find_score(plan, current)
        merge == IF score_entry # <<>>
                 THEN _merge_levels(existing_levels, score_entry[1].criterion_levels, lookup)
                 ELSE [levels |-> existing_levels, hits |-> {}]
        merged == covered \cup hits \cup merge.hits
        current_low == Get(context.competency_low_scores, current, 0)
                       + (IF score_entry # <<>> /\ score_entry[1].score < low_score_threshold
                          THEN 1 ELSE 0)
    IN IF ~Truthy(current)
       THEN [context |-> context, coverage_complete |-> FALSE, low_score_triggered |-> FALSE]
       ELSE [context |-> [context EXCEPT
                             !.competency_covered = Put(@, current, merged),
                             !.competency_low_scores = Put(@, current, current_low),
                             !.competency_criterion_levels = Put(@, current, merge.levels)],
             coverage_complete |-> _coverage_sufficient(criteria, merged),
             low_score_triggered |-> current_low >= max_competency_followups]

_apply_evaluation(context, plan, stage, warmup_limit, question_number) ==
    LET seeded == _seed_competency_context(context)
        scores == [c \in DOMAIN seeded.scores \cup {plan[i].competency : i \in 1..Len(plan)} |->
                      IF \E i \in 1..Len(plan) : plan[i].competency = c
                      THEN plan[MaxOf({i \in 1..Len(plan) : plan[i].competency = c})]
                      ELSE seeded.scores[c]]
        next_stage == IF stage = "warmup" /\ warmup_limit > 0 /\ question_number >= warmup_limit
                      THEN "competency" ELSE seeded.stage
        base_context == [seeded EXCEPT !.stage = next_stage, !.scores = scores]
    IN IF stage = "competency" THEN _update_competency_tracking(base_context, plan)
       ELSE [context |-> base_context, coverage_complete |-> FALSE,
             low_score_triggered |-> FALSE]

_remaining_criteria(context, competency) ==
    LET criteria == Get(competency_criteria, competency, <<>>)
    IN {criteria[i] : i \in 1..Len(criteria)} \ Get(context.competency_covered, competency, {})

\* variant: no cap on the follow-up questions of a competency
_should_advance_competency_uncapped(context, competency, coverage_complete, low_score_triggered) ==
    \/ coverage_complete
    \/ _remaining_criteria(context, competency) = {}
    \/ low_score_triggered

_should_advance_competency(context, competency, coverage_complete, low_score_triggered) ==
    \/ coverage_complete
    \/ _remaining_criteria(context, competency) = {}
    \/ context.question_index >= max_competency_followups
    \/ low_score_triggered

_advance_competency(context) ==
    LET next_index == context.competency_index + 1
    IN IF next_index >= Len(competency_pillars)
       THEN [context EXCEPT !.competency_index = next_index, !.competency = None,
                            !.stage = "wrap_up", !.question_index = 0]
       ELSE LET next_competency == competency_pillars[next_index + 1]
            IN [context EXCEPT
                  !.competency_index = next_index, !.competency = next_competency,
                  !.question_index = 0,
                  !.competency_low_scores = IF next_competency \in DOMAIN @ THEN @
                                            ELSE Put(@, next_competency, 0),
                  !.competency_covered = IF next_competency \in DOMAIN @ THEN @
                                         ELSE Put(@, next_competency, {}),
                  !.competency_criterion_levels = IF next_competency \in DOMAIN @ THEN @
                                                  ELSE Put(@, next_competency, EmptyFn)]

_drive_competency_loop(context0, answered_stage, coverage_complete, low_score_triggered) ==
    LET context == _seed_competency_context(context0)
        advance == /\ answered_stage = "competency"
                   /\ _should_advance_competency(context, context.competency,
                                                  coverage_complete, low_score_triggered)
        moved == IF advance THEN _advance_competency(context) ELSE context
    IN IF context.stage # "competency" \/ ~Truthy(context.competency) THEN context
       ELSE IF moved.stage # "competency" \/ ~Truthy(moved.competency) THEN moved
       ELSE [moved EXCEPT !.question_index = @ + 1, !.asked = @ + 1]

\* the context a new interview is started with
NewContext ==
    [stage |-> "warmup", competency |-> None, competency_index |-> 0, question_index |-> 0,
     competency_criterion_levels |-> EmptyFn, scores |-> EmptyFn,
     competency_covered |-> EmptyFn, competency_low_scores |-> EmptyFn, asked |-> 0]

\* start_session with _route_start and _run_warmup
start_session(context) ==
    LET seeded == _seed_competency_context(context)
        limit == IF warmup_questions > 0 THEN warmup_questions ELSE 0
        asked == 1
    IN IF limit <= 0 \/ seeded.stage # "warmup" THEN seeded
       ELSE IF asked >= limit
       THEN [_seed_competency_context([seeded EXCEPT !.stage = "competency"]) EXCEPT
               !.question_index = 0, !.asked = asked]
       ELSE [seeded EXCEPT !.stage = "warmup", !.asked = asked]

\* advance_session for the latest exchange of the history; plan is the oracle's reply
advance_session(context, plan) ==
    LET warmup_limit == IF warmup_questions > 0 THEN warmup_questions ELSE 0
        seeded_context == _seed_competency_context(context)
        question_number == context.asked
        stage == _stage_for_question(question_number, warmup_limit)
        normalized == EvaluatorAgent_invoke(seeded_context, plan)
        evaluated == _apply_evaluation(seeded_context, normalized, stage, warmup_limit,
                                       question_number)
    IN IF evaluated.context.stage # "competency" THEN evaluated.context
       ELSE _drive_competency_loop(evaluated.context, stage, evaluated.coverage_complete,
                                   evaluated.low_score_triggered)

StartSession ==
    /\ ctx = <<>>
    /\ ctx' = <<start_session(NewContext)>>
    /\ lastPlan' = <<[calls |-> 0, before |-> EmptyFn, plan |-> <<>>, pre |-> <<>>]>>

\* the candidate answers the latest question and advance_session is called
AdvanceWithin(plan, max_calls) ==
    /\ ctx # <<>> /\ ctx[1].stage # "wrap_up"
    /\ lastPlan[1].calls < max_calls
    /\ ctx' = <<advance_session(ctx[1], plan)>>
    /\ lastPlan' = <<[calls |-> lastPlan[1].calls + 1,
                      before |-> ctx[1].competency_criterion_levels, plan |-> plan,
                      pre |-> ctx]>>

Advance(plan) == AdvanceWithin(plan, MaxAdvances)

InitAdvance == MainIdle /\ FileIdle /\ ScoreIdle /\ AdvIdle /\ SessIdle /\ AgentIdle

NextAdvance ==
    \/ StartSession /\ UNCHANGED <<mainVars, fileVars, scoreVars, sessVars, agentVars>>
    \/ \E plan \in Plans : Advance(plan) /\ UNCHANGED <<mainVars, fileVars, scoreVars, sessVars, agentVars>>

SpecAdvance == InitAdvance /\ [][NextAdvance]_vars

\* C7: no stored criterion level competency_criterion_levels[c][k] decreases
\* over an advance_session call, whatever plan the evaluator returns.
C7_LevelsNondecreasing ==
    (lastPlan # <<>> /\ ctx # <<>>) =>
        \A c \in DOMAIN lastPlan[1].before :
            \A k \in DOMAIN lastPlan[1].before[c] :
                /\ c \in DOMAIN ctx[1].competency_criterion_levels
                /\ k \in DOMAIN ctx[1].competency_criterion_levels[c]
                /\ ctx[1].competency_criterion_levels[c][k] >= lastPlan[1].before[c][k]

(***************************************************************************)
(* agents/flow_manager.handle_after_monitor_and_intent called directly on  *)
(* a GraphState, as graph/nodes/flow_manager.run and the unit tests call   *)
(* it: the state is any state a caller can hand over (a question asked or  *)
(* not, any counters, any quick action), latest_intent any intent.         *)
(***************************************************************************)
\* the rubric of a state: none, or one criterion carrying all the weight
FlowRubrics == {<<>>, <<[id |-> "c1", weight |-> 100]>>}

\* a session with no question yet, and sessions whose current question is follow-up fi
FlowBases ==
    {new_session(<<"s1">>)} \cup {_ask(new_session(<<"s1">>), fi).st : fi \in 0..max_followups_per_item}

\* the score cache of a base state: nothing recorded, or one evaluation of the current item
FlowCaches(base) ==
    IF base.question_id = None THEN {EmptyFn}
    ELSE {EmptyFn} \cup
         {record_eval(EmptyFn, [competency_id |-> base.mem.competency_id,
                                item_id |-> base.mem.item_id, overall |-> o]) : o \in {30, 40}}

FlowStates ==
    {[base EXCEPT !.user_msg = user_msg, !.quick_action = quick_action,
                  !.blocks_in_row = blocks, !.hints_used_stage = hints,
                  !.rubric = rubric, !.mem.score_cache = score_cache] :
        base \in FlowBases, user_msg \in Messages \cup {"brief"},
        quick_action \in QuickActionIds, blocks \in {0, 3}, hints \in {0, hints_per_stage},
        rubric \in FlowRubrics, score_cache \in UNION {FlowCaches(b) : b \in FlowBases}}

\* the evaluator replies of direct calls: also one that names another item
FlowEvalReplies ==
    EvalReplies \cup {[kind |-> "valid", competency_id |-> "", item_id |-> "WU_02",
                       criterion_scores |-> <<[id |-> "c1", score |-> 5]>>]}

\* every outcome a call of the flow manager can have on a state, with the intent it was given
FlowOutcomes(st, clock) ==
    {StepOut(handle_after_monitor_and_intent(st, intent, eval_reply, hint_reply, clock),
             "ALLOW", intent) :
        intent \in Intents, eval_reply \in FlowEvalReplies, hint_reply \in HintReplies}

\* one call of the flow manager on the caller's state
FlowCall(w) ==
    /\ workers[w].pc = "flow" /\ budget > 0
    /\ \E out \in FlowOutcomes(workers[w].st[1], now) :
          LET me == workers[w]
              res == [monitor |-> out.monitor, intent |-> out.intent, type |-> out.type,
                      followup_index |-> out.followup_index, exhausted |-> out.exhausted,
                      reason |-> out.reason, before |-> me.st, after |-> <<out.st>>]
          IN /\ disk' = SaveAll(disk, out.saved)
             /\ workers' = [workers EXCEPT ![w] =
                  IF out.raised THEN [me EXCEPT !.pc = "idle", !.outcome = "error"]
                  ELSE [me EXCEPT !.st = <<out.st>>, !.result = res, !.outcome = "ok"]]
    /\ budget' = budget - 1
    /\ UNCHANGED <<now, blockRun>>

InitFlow ==
    /\ disk = EmptyFn
    /\ workers \in {[w \in {"w1"} |->
                       [pc |-> "flow", kind |-> "flow", st |-> <<st>>, pre |-> <<>>,
                        req |-> NoReq, resp |-> NoResp, result |-> NoResult, outcome |-> "none"]] :
                          st \in FlowStates}
    /\ now = 0
    /\ budget = MaxFlowCalls
    /\ blockRun = 0
    /\ FileIdle /\ ScoreIdle /\ AdvIdle /\ SessIdle /\ AgentIdle

NextFlow ==
    \E w \in DOMAIN workers : FlowCall(w) /\ UNCHANGED <<fileVars, scoreVars, advVars, sessVars, agentVars>>

SpecFlow == InitFlow /\ [][NextFlow]_vars

\* C11: a quick action is handled before the block-runaway check and before
\* every intent rule: repeat gives REASK, hint gives HINT, skip gives
\* SKIP_AND_NEXT, think_30 gives PAUSE_THINK with think_until = now +
\* think_seconds, whatever blocks_in_row and the intent are, and the quick
\* action is cleared by the decision.
C11_QuickActionFirst ==
    \A w \in DOMAIN workers :
        LET r == workers[w].result
        IN (r.before # <<>> /\ r.monitor = "ALLOW" /\ r.before[1].quick_action # None) =>
              LET aid == r.before[1].quick_action
              IN /\ r.after[1].quick_action = None
                 /\ r.after[1].blocks_in_row = r.before[1].blocks_in_row
                 /\ aid = "repeat" => r.type = "REASK"
                 /\ aid = "hint" => r.type = "HINT"
                 /\ aid = "skip" => r.type = "SKIP_AND_NEXT"
                 /\ aid = "think_30" =>
                       /\ r.type = "PAUSE_THINK"
                       /\ r.after[1].mem.think_until = now + think_seconds

\* a skip quick action handled with three blocks in a row and intent ask_hint
C11_Witness ==
    \E w \in DOMAIN workers :
        LET r == workers[w].result
        IN /\ r.before # <<>>
           /\ r.before[1].quick_action = "skip"
           /\ r.before[1].blocks_in_row >= 3
           /\ r.intent = "ask_hint"
           /\ r.type = "SKIP_AND_NEXT"

\* the number of evaluations a score cache holds
TurnsIn(competencies) ==
    LET RECURSIVE items(_, _)
        items(f, S) == IF S = {} THEN 0
                       ELSE LET i == CHOOSE x \in S : TRUE
                            IN Len(f[i].turns) + items(f, S \ {i})
        RECURSIVE comps(_)
        comps(S) == IF S = {} THEN 0
                    ELSE LET c == CHOOSE x \in S : TRUE
                         IN items(competencies[c].items, DOMAIN competencies[c].items)
                            + comps(S \ {c})
    IN comps(DOMAIN competencies)

\* best_of of an item in a score cache, 1.0 when the cache has no entry for it
BestOfItem(competencies, competency_id, item_id) ==
    IF competency_id \in DOMAIN competencies
       /\ item_id \in DOMAIN competencies[competency_id].items
    THEN competencies[competency_id].items[item_id].best_of
    ELSE 10

\* a step in which the flow manager evaluated an answer
AnswerEvaluated(r) ==
    /\ r.before # <<>>
    /\ r.monitor = "ALLOW"
    /\ r.before[1].quick_action = None
    /\ r.before[1].blocks_in_row < 3
    /\ r.intent = "answer"
    /\ Truthy(r.before[1].question_id)
    /\ Truthy(r.before[1].user_msg)

\* C12: when an answer is evaluated, the evaluation is recorded in the score
\* cache, and the decision is ASK with followup_index + 1 exactly when
\* followup_index < max_followups_per_item and the item's best_of after the
\* recording is below 4.0; otherwise it is EVAL_AND_ASK_NEXT.
C12_AnswerFollowupOrAdvance ==
    \A w \in DOMAIN workers :
        LET r == workers[w].result
        IN AnswerEvaluated(r) =>
              LET b == r.before[1]
                  a == r.after[1]
                  fi == IF b.mem.followup_index = Absent THEN 0 ELSE b.mem.followup_index
                  best == BestOfItem(a.mem.score_cache, b.mem.competency_id, b.mem.item_id)
              IN /\ TurnsIn(a.mem.score_cache) = TurnsIn(b.mem.score_cache) + 1
                 /\ IF fi < max_followups_per_item /\ best < 40
                    THEN /\ r.type = "ASK"
                         /\ r.followup_index = fi + 1
                         /\ a.mem.followup_index = fi + 1
                    ELSE r.type = "EVAL_AND_ASK_NEXT"

\* an evaluation that lifts the item's best_of to 4.0 or more below the
\* follow-up cap: the engine moves on
C12_Witness ==
    \E w \in DOMAIN workers :
        LET r == workers[w].result
        IN /\ AnswerEvaluated(r)
           /\ r.before[1].mem.followup_index < max_followups_per_item
           /\ BestOfItem(r.before[1].mem.score_cache, r.before[1].mem.competency_id,
                         r.before[1].mem.item_id) < 40
           /\ r.type = "EVAL_AND_ASK_NEXT"

(***************************************************************************)
(* Properties of the think timer and of the request merge in api/routes.   *)
(***************************************************************************)
\* C13: a turn that arrives with think_until set and now >= think_until
\* goes straight to the resume response: no pipeline step runs, the question
\* is the checkpoint's, and the checkpoint the turn writes has think_until
\* = null; a turn that arrives earlier enters the pipeline.
C13_ThinkExpiry ==
    [][\A w \in DOMAIN workers :
          /\ (workers[w].pc = "idle" /\ workers'[w].kind \in {"turn", "resume"}) =>
                LET ck == workers'[w].pre[1]
                    me == workers'[w]
                IN IF ck.mem.think_until >= 0 /\ now >= ck.mem.think_until
                   THEN /\ me.kind = "resume" /\ me.pc = "save"
                        /\ me.result = NoResult
                        /\ me.st[1].mem.think_until = NoneInt
                        /\ me.st[1].question_id = ck.question_id
                        /\ me.st[1].question_text = ck.question_text
                   ELSE me.kind = "turn" /\ me.pc = "step1"
          /\ (workers[w].kind = "resume" /\ workers'[w].pc = "idle") =>
                /\ workers[w].result = NoResult
                /\ load_checkpoint(disk', SessionOf(w)) # <<>>
                /\ load_checkpoint(disk', SessionOf(w))[1].mem.think_until = NoneInt
    ]_vars

\* a turn answered by the resume response after the think timer ran out
C13_Witness ==
    \E w \in DOMAIN workers :
        /\ workers[w].kind = "resume"
        /\ workers[w].pc = "save"
        /\ workers[w].pre[1].mem.think_until >= 0
        /\ now >= workers[w].pre[1].mem.think_until
        /\ workers[w].st[1].mem.think_until = NoneInt

\* a turn request in flight that carried both a quick action and a message
CarriesBoth(w) ==
    /\ workers[w].kind = "turn"
    /\ Truthy(workers[w].req.user_msg)
    /\ workers[w].req.quick_action # None

\* C14: a turn with both a quick action and a message stashes the message in
\* queued_user_msg; the first run consumes the quick action, the second run
\* of the same request works on the queued message with no quick action
\* left, the response is the second run's, and queued_user_msg is empty when
\* the checkpoint is written.
C14_QuickActionThenMessage ==
    \A w \in DOMAIN workers :
        CarriesBoth(w) =>
            LET me == workers[w]
            IN /\ me.pc = "step1" =>
                     /\ me.st[1].queued_user_msg = me.req.user_msg
                     /\ me.st[1].user_msg = None
                     /\ me.st[1].quick_action = me.req.quick_action
               /\ me.pc = "step2" =>
                     /\ me.result.before[1].quick_action = me.req.quick_action
                     /\ me.st[1].quick_action = None
                     /\ me.st[1].user_msg = me.req.user_msg
                     /\ me.st[1].queued_user_msg = None
               /\ me.pc = "save" =>
                     /\ me.result.before[1].user_msg = me.req.user_msg
                     /\ me.result.before[1].quick_action = None
                     /\ me.st[1].queued_user_msg = None

(***************************************************************************)
(* graph/build.py run_graph_turn: one turn on a GraphState object that the *)
(* caller keeps in memory between calls.                                   *)
(***************************************************************************)
\* the part before the step: merge the inputs; a variant that drains the
\* queue without emptying it comes first
run_graph_turn_keep(st, user_msg, quick_action) ==
    IF quick_action # None /\ Truthy(user_msg)
    THEN [st EXCEPT !.quick_action = quick_action, !.queued_user_msg = user_msg,
                    !.user_msg = None]
    ELSE IF quick_action = None /\ user_msg = None /\ Truthy(st.queued_user_msg)
         THEN [st EXCEPT !.quick_action = None, !.user_msg = st.queued_user_msg]
         ELSE [st EXCEPT !.quick_action = quick_action, !.user_msg = user_msg]

run_graph_turn(st, user_msg, quick_action) ==
    IF quick_action # None /\ Truthy(user_msg)
    THEN [st EXCEPT !.quick_action = quick_action, !.queued_user_msg = user_msg,
                    !.user_msg = None]
    ELSE IF quick_action = None /\ user_msg = None /\ Truthy(st.queued_user_msg)
         THEN [st EXCEPT !.quick_action = None, !.user_msg = st.queued_user_msg,
                         !.queued_user_msg = None]
         ELSE [st EXCEPT !.quick_action = quick_action, !.user_msg = user_msg]

\* the part after the step: the message of a quick-action turn stays queued
RequeueAfterStep(st, user_msg, quick_action) ==
    IF quick_action # None /\ Truthy(user_msg) /\ st.queued_user_msg = None
    THEN [st EXCEPT !.queued_user_msg = user_msg]
    ELSE st

\* the states a caller holds before a turn: a new session, or one with a question asked
GraphBases == FlowBases

\* one call; pre remembers the inputs and the decision of the call before
GraphTurn(w, user_msg, quick_action) ==
    /\ workers[w].pc = "graph" /\ budget > 0
    /\ \E out \in StepOutcomes(run_graph_turn(workers[w].st[1], user_msg, quick_action), now) :
          LET me == workers[w]
              merged == run_graph_turn(me.st[1], user_msg, quick_action)
              res == [monitor |-> out.monitor, intent |-> out.intent, type |-> out.type,
                      followup_index |-> out.followup_index, exhausted |-> out.exhausted,
                      reason |-> out.reason, before |-> <<merged>>, after |-> <<out.st>>]
          IN /\ disk' = SaveAll(disk, out.saved)
             /\ workers' = [workers EXCEPT ![w] =
                  IF out.raised
                  THEN [IdleWorker EXCEPT !.outcome = "error"]
                  ELSE [me EXCEPT
                          !.st = <<RequeueAfterStep(out.st, user_msg, quick_action)>>,
                          !.pre = <<[req |-> me.req, type |-> me.result.type]>>,
                          !.req = [user_msg |-> user_msg, quick_action |-> quick_action],
                          !.result = res, !.outcome = "ok"]]
             /\ budget' = budget - 1
             /\ UNCHANGED <<now, blockRun>>

InitGraph ==
    /\ disk = EmptyFn
    /\ workers \in {[w \in {"w1"} |->
                       [pc |-> "graph", kind |-> "graph", st |-> <<st>>, pre |-> <<>>,
                        req |-> NoReq, resp |-> NoResp, result |-> NoResult, outcome |-> "none"]] :
                          st \in GraphBases}
    /\ now = 0
    /\ budget = MaxGraphTurns
    /\ blockRun = 0
    /\ FileIdle /\ ScoreIdle /\ AdvIdle /\ SessIdle /\ AgentIdle

NextGraph ==
    \E w \in DOMAIN workers, user_msg \in Messages, quick_action \in QuickActionIds :
        GraphTurn(w, user_msg, quick_action) /\ UNCHANGED <<fileVars, scoreVars, advVars, sessVars, agentVars>>

SpecGraph == InitGraph /\ [][NextGraph]_vars

\* a call that has returned, made with a message and quick action repeat on a current question
RepeatWithMessage(me) ==
    /\ me.kind = "graph" /\ me.outcome = "ok"
    /\ Truthy(me.req.user_msg) /\ me.req.quick_action = "repeat"
    /\ me.result.before[1].question_id # None

\* a call that has returned, made with no inputs
EmptyTurn(me) == me.kind = "graph" /\ me.outcome = "ok" /\ me.req = NoReq

StepReturns(w) ==
    /\ workers[w].pc \in {"step1", "step2"}
    /\ workers'[w].pc \in {"step2", "save"}
    /\ workers'[w].pc # workers[w].pc

\* C16: a step whose monitor outcome is not ALLOW runs neither the intent
\* classifier nor the flow manager and emits no decision; it writes no
\* checkpoint and leaves every field of the state but blocks_in_row as it
\* was (question, follow-up index, score cache, skip_streak, hint counter
\* and think timer included).
C16_MonitorGate ==
    [][\A w \in DOMAIN workers :
          (StepReturns(w) /\ workers'[w].result.monitor # "ALLOW") =>
              LET res == workers'[w].result
              IN /\ res.intent = None
                 /\ res.type = "NONE"
                 /\ res.after[1] =
                       [res.before[1] EXCEPT !.blocks_in_row = res.after[1].blocks_in_row]
                 /\ res.before = workers[w].st
                 /\ disk' = disk]_vars

C16_Witness ==
    \E w \in DOMAIN workers :
        /\ workers[w].pc \in {"step2", "save"}
        /\ workers[w].result.monitor = "BLOCK_AND_REFOCUS"
        /\ workers[w].result.before[1].question_id # None
        /\ workers[w].result.before[1].quick_action = "skip"
        /\ workers[w].result.after[1].blocks_in_row
              = workers[w].result.before[1].blocks_in_row + 1

\* C19: when finish has completed for a session, the session no longer
\* exists: a later turn or finish for its id finds no session.
C19_FinishDestroysSession ==
    [][\A w \in DOMAIN workers :
          (workers[w].kind = "finish" /\ workers[w].pc = "save" /\ workers'[w].pc = "idle") =>
              load_session(disk', workers[w].st[1].session_id) = <<>>]_vars

(***************************************************************************)
(* interview_session/interview_session.py: InterviewSessionEngine (start,  *)
(* answer) behind InterviewSessionManager (start_session, submit_answer)   *)
(* with the in-memory store.  The store holds the very state object the    *)
(* engine mutates, so what an answer changed before an oracle raised stays *)
(* in the store.                                                           *)
(***************************************************************************)
SessionNames == {"u1", "u2"}
\* rubrics of a plan, by competency name; nothing makes the names distinct
SessionPlans == {<<>>, <<"A">>, <<"A", "B">>, <<"A", "A">>}
\* InterviewFlowConfig: the defaults, the smallest question cap, a second warm-up question
FlowConfigs ==
    {[warmup_question_count |-> w, max_questions_per_competency |-> m] :
        w \in {warmup_question_count, warmup_question_count + 1},
        m \in {1, max_questions_per_competency}}
\* the question generator answers or raises; the evaluator reports rubric_filled or raises
QuestionReplies == {"ok", "raise"}
EvaluatorReplies == {"raise", "filled", "open"}

SeqRange(seq) == {seq[i] : i \in DOMAIN seq}

\* InterviewPlan.build_state with the fields engine.start sets
build_state(plan, at) ==
    [stage |-> "warmup",
     competency_order |-> plan,
     competencies |-> [n \in SeqRange(plan) |-> [rubric_filled |-> FALSE, questions |-> 0]],
     active_index |-> 0,
     pending_question |-> <<>>,
     warmup_questions_asked |-> 0, wrapup_questions_asked |-> 0, questions_asked |-> 0,
     last_activity |-> at, last_checkpoint |-> NoneInt]

\* InterviewSessionState.active_competency: <<name>> or <<>>
active_competency(st) ==
    IF st.active_index < Len(st.competency_order)
    THEN <<st.competency_order[st.active_index + 1]>>
    ELSE <<>>

_record_question(st, stage, competency) ==
    [st EXCEPT !.warmup_questions_asked = IF stage = "warmup" THEN @ + 1 ELSE @,
               !.wrapup_questions_asked = IF stage = "wrapup" THEN @ + 1 ELSE @,
               !.questions_asked = @ + 1,
               !.pending_question = <<[stage |-> stage, competency |-> competency]>>]

Engine(st, raised) == [st |-> st, raised |-> raised]

_generate_warmup_question(st, question_reply) ==
    IF question_reply = "raise" THEN Engine(st, TRUE)
    ELSE Engine(_record_question(st, "warmup", None), FALSE)

_generate_competency_question(st, competency, question_reply) ==
    IF question_reply = "raise" THEN Engine(st, TRUE)
    ELSE Engine(_record_question([st EXCEPT !.competencies[competency].questions = @ + 1],
                                 "competency", competency), FALSE)

_generate_wrapup_question(st, question_reply) ==
    IF question_reply = "raise" THEN Engine(st, TRUE)
    ELSE Engine(_record_question(st, "wrapup", None), FALSE)

\* a variant that enters the wrap-up without asking its question comes first
_enter_wrapup_silent(st, question_reply) == Engine([st EXCEPT !.stage = "wrapup"], FALSE)

_enter_wrapup(st, question_reply) ==
    LET s1 == [st EXCEPT !.stage = "wrapup"]
    IN IF s1.wrapup_questions_asked > 0 THEN Engine(s1, FALSE)
       ELSE _generate_wrapup_question(s1, question_reply)

_enter_competency(st, question_reply) ==
    LET active == active_competency(st)
    IN IF active = <<>> THEN _enter_wrapup(st, question_reply)
       ELSE _generate_competency_question([st EXCEPT !.stage = "competency"], active[1],
                                          question_reply)

_advance_after_warmup(st, question_reply) ==
    IF st.competency_order # <<>> THEN _enter_competency(st, question_reply)
    ELSE _enter_wrapup(st, question_reply)

_maybe_checkpoint(st, force, at) ==
    IF force \/ st.last_checkpoint = NoneInt
         \/ at - st.last_checkpoint >= checkpoint_interval_minutes
    THEN [st EXCEPT !.last_checkpoint = at]
    ELSE st

_begin_warmup(st, cfg, question_reply) ==
    IF cfg.warmup_question_count <= 0 THEN _advance_after_warmup(st, question_reply)
    ELSE _generate_warmup_question(st, question_reply)

\* a variant that leaves the warm-up after its first answer comes first
_after_warmup_answer_early(st, cfg, question_reply, at) ==
    _advance_after_warmup(_maybe_checkpoint(st, FALSE, at), question_reply)

_after_warmup_answer(st, cfg, question_reply, at) ==
    LET s1 == _maybe_checkpoint(st, FALSE, at)
    IN IF s1.warmup_questions_asked < cfg.warmup_question_count
       THEN _generate_warmup_question(s1, question_reply)
       ELSE _advance_after_warmup(s1, question_reply)

\* a variant that leaves a competency only when its rubric is filled comes first
_after_competency_answer_uncapped(st, cfg, question_reply) ==
    LET active == active_competency(st)
    IN IF active = <<>> THEN _enter_wrapup(st, question_reply)
       ELSE IF st.competencies[active[1]].rubric_filled
       THEN _enter_competency([st EXCEPT !.active_index = @ + 1], question_reply)
       ELSE _generate_competency_question(st, active[1], question_reply)

_after_competency_answer(st, cfg, question_reply) ==
    LET active == active_competency(st)
    IN IF active = <<>> THEN _enter_wrapup(st, question_reply)
       ELSE IF \/ st.competencies[active[1]].rubric_filled
               \/ st.competencies[active[1]].questions >= cfg.max_questions_per_competency
       THEN _enter_competency([st EXCEPT !.active_index = @ + 1], question_reply)
       ELSE _generate_competency_question(st, active[1], question_reply)

\* CompetencyRuntimeState.apply_evaluation and the checkpoint that follows it
_evaluate_competency_answer(st, competency, evaluator_reply, at) ==
    IF evaluator_reply = "raise" THEN Engine(st, TRUE)
    ELSE Engine(_maybe_checkpoint(
                   [st EXCEPT !.competencies[competency].rubric_filled
                                  = (evaluator_reply = "filled")],
                   FALSE, at), FALSE)

_after_wrapup_answer(st, at) ==
    Engine([_maybe_checkpoint(st, TRUE, at) EXCEPT !.stage = "complete"], FALSE)

\* InterviewSessionEngine.start
engine_start(plan, cfg, question_reply, at) ==
    _begin_warmup(build_state(plan, at), cfg, question_reply)

\* InterviewSessionEngine.answer on a state with a pending question
engine_answer(st, cfg, evaluator_reply, question_reply, at) ==
    LET pending == st.pending_question[1]
        s0 == [st EXCEPT !.pending_question = <<>>, !.last_activity = at]
    IN IF pending.stage = "warmup" THEN _after_warmup_answer(s0, cfg, question_reply, at)
       ELSE IF pending.stage = "competency"
       THEN LET ev == _evaluate_competency_answer(s0, pending.competency, evaluator_reply, at)
            IN IF ev.raised THEN ev
               ELSE _after_competency_answer(ev.st, cfg, question_reply)
       ELSE _after_wrapup_answer(s0, at)

\* every way an answer can end, one per combination of oracle replies
AnswerOutcomes(st, cfg, at, evaluator_replies, question_replies) ==
    {engine_answer(st, cfg, evaluator_reply, question_reply, at) :
        evaluator_reply \in evaluator_replies, question_reply \in question_replies}

\* the expiry test of submit_answer; a variant that waits twice as long comes first
_is_expired_late(st, at) == at - st.last_activity > timeout_minutes + timeout_minutes

_is_expired(st, at) == at - st.last_activity > timeout_minutes

Called(op, session_id, outcome, completed, state) ==
    [op |-> op, session_id |-> session_id, outcome |-> outcome, completed |-> completed,
     state |-> state]

\* InterviewSessionManager.start_session; the session id is a fresh uuid
start_session_managed(session_id, plan, cfg, question_reply) ==
    /\ session_id \notin DOMAIN issued
    /\ Cardinality(DOMAIN issued) < MaxSessions
    /\ LET out == engine_start(plan, cfg, question_reply, utcnow)
       IN IF out.raised
          THEN /\ store' = store
               /\ issued' = issued @@ (session_id :> "failed")
               /\ lastCall' = Called("start_session", session_id, "error", FALSE, <<>>)
          ELSE /\ store' = store @@ (session_id :> [engine |-> cfg, state |-> out.st])
               /\ issued' = issued @@ (session_id :> "live")
               /\ lastCall' = Called("start_session", session_id, "ok", FALSE, <<out.st>>)
    /\ UNCHANGED utcnow

\* InterviewSessionManager.submit_answer, the oracles answering from the given replies
submit_answer_from(session_id, evaluator_replies, question_replies) ==
    /\ IF session_id \notin DOMAIN store
       THEN /\ lastCall' = Called("submit_answer", session_id, "not_found", FALSE, <<>>)
            /\ UNCHANGED <<store, issued>>
       ELSE IF _is_expired(store[session_id].state, utcnow)
       THEN /\ store' = [k \in DOMAIN store \ {session_id} |-> store[k]]
            /\ issued' = [issued EXCEPT ![session_id] = "expired"]
            /\ lastCall' = Called("submit_answer", session_id, "expired", FALSE, <<>>)
       ELSE IF store[session_id].state.pending_question = <<>>
       THEN /\ lastCall' = Called("submit_answer", session_id, "value_error", FALSE, <<>>)
            /\ UNCHANGED <<store, issued>>
       ELSE \E out \in AnswerOutcomes(store[session_id].state, store[session_id].engine,
                                      utcnow, evaluator_replies, question_replies) :
               IF out.raised
               THEN /\ store' = [store EXCEPT ![session_id].state = out.st]
                    /\ issued' = issued
                    /\ lastCall' = Called("submit_answer", session_id, "error", FALSE, <<>>)
               ELSE IF out.st.stage = "complete"
               THEN /\ store' = [k \in DOMAIN store \ {session_id} |-> store[k]]
                    /\ issued' = [issued EXCEPT ![session_id] = "completed"]
                    /\ lastCall' = Called("submit_answer", session_id, "ok", TRUE, <<out.st>>)
               ELSE /\ store' = [store EXCEPT ![session_id].state = out.st]
                    /\ issued' = issued
                    /\ lastCall' = Called("submit_answer", session_id, "ok", FALSE,
                                          <<out.st>>)
    /\ UNCHANGED utcnow

submit_answer(session_id) == submit_answer_from(session_id, EvaluatorReplies, QuestionReplies)

\* time passes between calls
Wait ==
    /\ utcnow + timeout_minutes \div 2 <= MaxMinutes
    /\ utcnow' = utcnow + timeout_minutes \div 2
    /\ UNCHANGED <<store, issued, lastCall>>

InitSessions == MainIdle /\ FileIdle /\ ScoreIdle /\ AdvIdle /\ SessIdle /\ AgentIdle

NextSessions ==
    \/ \E session_id \in SessionNames, plan \in SessionPlans, cfg \in FlowConfigs,
          question_reply \in QuestionReplies :
          start_session_managed(session_id, plan, cfg, question_reply)
             /\ UNCHANGED <<mainVars, fileVars, scoreVars, advVars, agentVars>>
    \/ \E session_id \in SessionNames :
          submit_answer(session_id) /\ UNCHANGED <<mainVars, fileVars, scoreVars, advVars, agentVars>>
    \/ Wait /\ UNCHANGED <<mainVars, fileVars, scoreVars, advVars, agentVars>>

SpecSessions == InitSessions /\ [][NextSessions]_vars

\* the state a submit_answer call for a stored session leaves behind: the
\* stored one, or the returned one when the session was removed on completion
StateAfter(session_id) ==
    IF session_id \in DOMAIN store' THEN store'[session_id].state
    ELSE IF lastCall'.session_id = session_id /\ lastCall'.state # <<>>
    THEN lastCall'.state[1]
    ELSE store[session_id].state

StageRank(stage) ==
    IF stage = "warmup" THEN 0 ELSE IF stage = "competency" THEN 1
    ELSE IF stage = "wrapup" THEN 2 ELSE 3

\* C17: the stage of a session never moves back along warmup, competency,
\* wrapup, complete; a session past warmup has asked exactly the configured
\* number of warm-up questions and none of them is pending; at most one
\* wrap-up question is asked, it has been asked once a wrap-up question is
\* pending or the session is complete; and complete is entered only by an
\* answer to the pending wrap-up question.
C17_StageForward ==
    [][/\ \A id \in DOMAIN store :
             LET before == store[id].state
                 after == StateAfter(id)
             IN /\ StageRank(after.stage) >= StageRank(before.stage)
                /\ (after.stage = "complete" /\ before.stage # "complete") =>
                      /\ before.stage = "wrapup"
                      /\ before.pending_question = <<[stage |-> "wrapup", competency |-> None]>>
                      /\ lastCall'.op = "submit_answer" /\ lastCall'.completed
                /\ after.wrapup_questions_asked <= 1
                /\ after.stage = "complete" => after.wrapup_questions_asked = 1
       /\ \A id \in DOMAIN store' :
             LET st == store'[id].state
                 cfg == store'[id].engine
             IN /\ st.wrapup_questions_asked <= 1
                /\ st.stage # "warmup" =>
                      /\ st.warmup_questions_asked = cfg.warmup_question_count
                      /\ \A q \in SeqRange(st.pending_question) : q.stage # "warmup"
                /\ \A q \in SeqRange(st.pending_question) :
                      q.stage = "wrapup" => st.wrapup_questions_asked = 1]_vars

C17_Witness ==
    /\ lastCall.completed
    /\ lastCall.state # <<>>
    /\ lastCall.state[1].stage = "complete"
    /\ lastCall.state[1].competency_order = <<"A", "B">>
    /\ lastCall.state[1].warmup_questions_asked = warmup_question_count + 1
    /\ lastCall.state[1].wrapup_questions_asked = 1

\* the competency names at the first n positions of a rubric order
Visited(order, n) == {order[i] : i \in {j \in DOMAIN order : j <= n}}

\* C18: an evaluated answer in the competency stage moves on from the active
\* competency exactly when the evaluator reported the rubric filled or the
\* competency has had max_questions_per_competency questions (an answer cut
\* short by an exception moves on only in that case); no competency is
\* asked more than max_questions_per_competency questions; the active
\* position only steps forward by one, never onto a competency visited
\* before, and the pending question is for the active competency; and
\* wrapup is entered only when every competency has been left.
C18_LeaveCompetency ==
    [][\A id \in DOMAIN store :
          LET before == store[id].state
              after == StateAfter(id)
              cfg == store[id].engine
              answered == before.pending_question # <<>>
                             /\ before.pending_question[1].stage = "competency"
              name == before.pending_question[1].competency
              due == \/ after.competencies[name].rubric_filled
                     \/ before.competencies[name].questions
                           >= cfg.max_questions_per_competency
              left == after.active_index # before.active_index
          IN /\ (answered /\ lastCall'.outcome = "ok" /\ lastCall' # lastCall) => (left <=> due)
             /\ left => (answered /\ due /\ after.active_index = before.active_index + 1)
             /\ \A n \in DOMAIN after.competencies :
                   after.competencies[n].questions <= cfg.max_questions_per_competency
             /\ (left /\ active_competency(after) # <<>>) =>
                   active_competency(after)[1]
                      \notin Visited(after.competency_order, before.active_index + 1)
             /\ \A q \in SeqRange(after.pending_question) :
                   q.stage = "competency" => <<q.competency>> = active_competency(after)
             /\ after.stage \in {"wrapup", "complete"} =>
                   after.active_index >= Len(after.competency_order)]_vars

\* a manager call was made in this transition and changed something
CallMade == utcnow' = utcnow /\ <<store, issued, lastCall>>' # <<store, issued, lastCall>>

\* a submit_answer call for session_id was made in this transition
Submitted(session_id) ==
    CallMade /\ lastCall'.op = "submit_answer" /\ lastCall'.session_id = session_id

\* C20: submit_answer for a stored session whose last activity lies more
\* than timeout_minutes back deletes the session, raises SessionExpiredError
\* and leaves the answer unprocessed; submit_answer for an id that is not
\* in the store raises SessionNotFoundError and changes nothing, and an id
\* once removed never returns to the store; a session whose answer
\* completed the interview is removed from the store.
C20_ExpiredSessionsAreDeleted ==
    [][/\ \A id \in DOMAIN store :
             /\ (Submitted(id) /\ utcnow - store[id].state.last_activity > timeout_minutes) =>
                   /\ lastCall'.outcome = "expired"
                   /\ lastCall'.state = <<>>
                   /\ id \notin DOMAIN store'
                   /\ \A other \in DOMAIN store \ {id} :
                         other \in DOMAIN store' /\ store'[other] = store[other]
             /\ (Submitted(id) /\ lastCall'.outcome = "ok"
                    /\ lastCall'.state[1].stage = "complete") =>
                   lastCall'.completed /\ id \notin DOMAIN store'
       /\ \A id \in SessionNames \ DOMAIN store :
             /\ Submitted(id) => (lastCall'.outcome = "not_found" /\ store' = store)
             /\ id \in DOMAIN issued => id \notin DOMAIN store']_vars

C20_Witness ==
    /\ lastCall.op = "submit_answer"
    /\ lastCall.outcome = "not_found"
    /\ lastCall.session_id \in DOMAIN issued
    /\ issued[lastCall.session_id] = "expired"


(***************************************************************************)
(* The quick-action palette of a response.                                 *)
(***************************************************************************)
\* C21: every response assembled from a flow-manager decision or from a resume
\* offers the palette hint, think_30 exactly when the skip streak of the state the
\* response is assembled from is at least 3, and the full palette hint, think_30,
\* repeat, skip otherwise.
C21_PaletteBySkipStreak ==
    \A w \in DOMAIN workers :
        LET resp == workers[w].resp
        IN resp.source \in {"decision", "resume"} =>
              /\ (resp.skip_streak >= 3 <=> resp.quick_actions = <<"hint", "think_30">>)
              /\ (resp.skip_streak < 3 <=>
                     resp.quick_actions = <<"hint", "think_30", "repeat", "skip">>)

\* a response to a flow decision taken on the third skip in a row
C21_Witness ==
    \E w \in DOMAIN workers :
        /\ workers[w].resp.source = "decision"
        /\ workers[w].resp.skip_streak = 3
        /\ workers[w].resp.quick_actions = <<"hint", "think_30">>


(***************************************************************************)
(* agents/intent_classifier.classify_intent called on its own, on every    *)
(* reply the intent oracle can give.                                       *)
(***************************************************************************)
Rationales == {"r1", "r2"}
Confidences == 0 .. 100

\* a reply that passes IntentResult.model_validate, and one that does not
IntentOracleReplies ==
    [kind : {"valid"}, intent : Intents, confidence : Confidences, rationale : Rationales]
    \cup {[kind |-> "invalid", intent |-> "other", confidence |-> 0, rationale |-> ""]}

ClassifyIntent(reply) ==
    /\ intentCall' = <<[reply |-> reply, result |-> classify_intent(reply)]>>
    /\ UNCHANGED <<mainVars, fileVars, scoreVars, advVars, sessVars, monVars, gwVars, pairVars,
                 extraVars>>

InitIntent == MainIdle /\ FileIdle /\ ScoreIdle /\ AdvIdle /\ SessIdle /\ AgentIdle

NextIntent == \E reply \in IntentOracleReplies : ClassifyIntent(reply)

SpecIntent == InitIntent /\ [][NextIntent]_vars

\* C22: a reply of the intent oracle that fails schema validation gives intent
\* other with confidence 0.0; a schema-valid reply keeps the oracle's intent when
\* its confidence is at least 0.60 and becomes ask_clarify, with confidence and
\* rationale preserved, when it is below.
C22_IntentGate ==
    \A i \in DOMAIN intentCall :
        LET reply == intentCall[i].reply
            result == intentCall[i].result
        IN /\ reply.kind = "invalid" => (result.intent = "other" /\ result.confidence = 0)
           /\ (reply.kind = "valid" /\ reply.confidence >= 60) =>
                 result = [intent |-> reply.intent, confidence |-> reply.confidence,
                           rationale |-> reply.rationale]
           /\ (reply.kind = "valid" /\ reply.confidence < 60) =>
                 result = [intent |-> "ask_clarify", confidence |-> reply.confidence,
                           rationale |-> reply.rationale]


(***************************************************************************)
(* agents/behavior_monitor.run_monitor called on its own, with the         *)
(* interview_flags table as the sink.  A message is described by what the  *)
(* monitor looks at: its text class, the category config/safety.py finds   *)
(* in it once the allow list is applied, and its whitespace token count.   *)
(* Cosines are in hundredths.                                              *)
(***************************************************************************)
Categories == {None, "unsafe", "jailbreak", "pii", "offtopic", "low_content"}
MonitorMessages ==
    [text : {"", "..."}, category : Categories, tokens : {0}]
    \cup [text : {"words"}, category : Categories, tokens : {LOW_CONTENT_TOKENS - 1,
                                                              LOW_CONTENT_TOKENS}]
Cosines == {OFF_TOPIC_CUTOFF - 1, OFF_TOPIC_CUTOFF, 70}

\* the monitor oracle: a transport failure, a reply that fails
\* MonitorResult.model_validate, or a valid reply with the action it names
MonitorReplies == {"raise", "invalid"} \cup MonitorActions

\* run_monitor, lines 165-190: the action the heuristics pick, passed to the
\* oracle as forced_action
heuristic_action(msg, cosine) ==
    IF msg.text \in {"", "..."} THEN "REMIND"
    ELSE IF msg.category = "unsafe" THEN "BLOCK_AND_REFOCUS"
    ELSE IF msg.category = "jailbreak" THEN "BLOCK_AND_REFOCUS"
    ELSE IF msg.category = "pii" THEN "REDIRECT"
    ELSE IF msg.category = "offtopic" THEN "REDIRECT"
    ELSE IF cosine < OFF_TOPIC_CUTOFF THEN "REDIRECT"
    ELSE IF msg.tokens < LOW_CONTENT_TOKENS THEN "NUDGE_DEPTH"
    ELSE "ALLOW"

\* run_monitor: the action returned, the flag rows inserted and whether the call
\* raised.  user_msg: <<>> for None, <<message>> otherwise; sink_ok: whether an
\* insert into interview_flags succeeds.
run_monitor(user_msg, cosine, reply, sink_ok) ==
    LET forced == IF user_msg = <<>> THEN "ALLOW" ELSE heuristic_action(user_msg[1], cosine)
        Raise == [forced |-> forced, action |-> None, inserted |-> <<>>, outcome |-> "raise"]
        Return(action, inserted) ==
            [forced |-> forced, action |-> action, inserted |-> inserted, outcome |-> "ok"]
    IN IF reply = "raise" THEN Raise
       ELSE IF user_msg = <<>>
       THEN IF reply = "invalid" THEN Raise ELSE Return(reply, <<>>)
       ELSE LET action == IF reply = "invalid" THEN forced ELSE reply
            IN IF action = "ALLOW" THEN Return(action, <<>>)
               ELSE IF sink_ok THEN Return(action, <<action>>)
               ELSE Raise

RunMonitor(user_msg, cosine, reply, sink_ok) ==
    /\ monitorCall.run < MaxMonitorRuns
    /\ LET out == run_monitor(user_msg, cosine, reply, sink_ok)
       IN /\ flags' = flags \o out.inserted
          /\ monitorCall' = [run |-> monitorCall.run + 1, user_msg |-> user_msg,
                             cosine |-> cosine, reply |-> reply, forced |-> out.forced,
                             action |-> out.action, outcome |-> out.outcome]
    /\ UNCHANGED <<mainVars, fileVars, scoreVars, advVars, sessVars, intentCall, gwVars, pairVars,
                 extraVars>>

InitMonitor == MainIdle /\ FileIdle /\ ScoreIdle /\ AdvIdle /\ SessIdle /\ AgentIdle

NextMonitor ==
    \E user_msg \in {<<msg>> : msg \in MonitorMessages} \cup {<<>>}, cosine \in Cosines,
       reply \in MonitorReplies, sink_ok \in BOOLEAN :
        RunMonitor(user_msg, cosine, reply, sink_ok)

SpecMonitor == InitMonitor /\ [][NextMonitor]_vars

\* C23: for every non-null user message and every reply of the monitor oracle the
\* action the monitor returns is the one of the first matching rule: empty or
\* ellipsis-only input gives REMIND, the unsafe category BLOCK_AND_REFOCUS, jailbreak
\* BLOCK_AND_REFOCUS, pii REDIRECT, the offtopic category or a cosine below
\* off_topic_cutoff REDIRECT, fewer than low_content_tokens tokens NUDGE_DEPTH, and
\* anything else ALLOW; an unsafe or jailbreak message is never ALLOWed.
C23_FirstMatchingRule ==
    LET msg == monitorCall.user_msg[1]
        expected ==
            IF msg.text \in {"", "..."} THEN "REMIND"
            ELSE IF msg.category \in {"unsafe", "jailbreak"} THEN "BLOCK_AND_REFOCUS"
            ELSE IF msg.category = "pii" THEN "REDIRECT"
            ELSE IF msg.category = "offtopic" \/ monitorCall.cosine < 45 THEN "REDIRECT"
            ELSE IF msg.tokens < 12 THEN "NUDGE_DEPTH"
            ELSE "ALLOW"
    IN (monitorCall.outcome = "ok" /\ monitorCall.user_msg # <<>>) =>
          /\ monitorCall.action = expected
          /\ msg.category \in {"unsafe", "jailbreak"} => monitorCall.action # "ALLOW"

\* C24: a monitor run that returns an action other than ALLOW records exactly one
\* interview flag, carrying that action, whatever the input (an absent user message
\* included); a run that returns ALLOW records none.
C24_FlagPerNonAllow ==
    [][(monitorCall'.run # monitorCall.run /\ monitorCall'.outcome = "ok") =>
          flags' = IF monitorCall'.action # "ALLOW"
                   THEN Append(flags, monitorCall'.action)
                   ELSE flags]_vars


(***************************************************************************)
(* The turn controller with its observability sinks: the quick_actions     *)
(* table (api/routes._log_quick_action), the interview_flags table         *)
(* (run_monitor) and the scores table (services/scoring.record_eval).  An  *)
(* insert either succeeds or raises (storage/*.py: sqlite3 errors and      *)
(* payload validation errors are not caught anywhere on the way up).       *)
(***************************************************************************)
SinkErrors == {"quick_action_log_failed", "flag_insert_failed", "score_insert_failed"}

\* POST /turn up to the first step, with _log_quick_action between the two
\* assignments of the quick-action branch
SinkTurnLoad(w, key, user_msg, quick_action, log_ok) ==
    LET ck == load_session(disk, key)
    IN IF ck # <<>> /\ ~ThinkExpired(ck[1], now) /\ quick_action # None /\ ~log_ok
       THEN /\ ~Busy(w) /\ budget > 0
            /\ workers' = [workers EXCEPT ![w] =
                  [IdleWorker EXCEPT !.pre = ck, !.outcome = "quick_action_log_failed"]]
            /\ budget' = budget - 1
            /\ UNCHANGED <<disk, now, blockRun>>
       ELSE TurnLoad(w, key, user_msg, quick_action)

\* graph.build.step with the two inserts made inside it: the flag of a non-ALLOW
\* monitor result on a non-null message, and the score row of an evaluated answer
SinkStep(w, flag_ok, score_ok) ==
    /\ workers[w].pc \in {"step1", "step2"}
    /\ \E out \in StepOutcomes(workers[w].st[1], now) :
          LET st == workers[w].st[1]
              flag_write == out.monitor \notin {"ALLOW", "raise"} /\ st.user_msg # None
              score_write == /\ ~out.raised
                             /\ AnswerEvaluated([monitor |-> out.monitor, intent |-> out.intent,
                                                 before |-> workers[w].st])
          IN IF flag_write /\ ~flag_ok
             THEN StepDone(w, StepOut(Raised(st, <<>>), "raise", None), "flag_insert_failed")
             ELSE IF score_write /\ ~score_ok
             THEN StepDone(w, StepOut(Raised(MonitorNode(st, "ALLOW"), <<>>), "ALLOW", out.intent),
                           "score_insert_failed")
             ELSE StepDone(w, out, "error")

InitSinks ==
    /\ disk = EmptyFn
    /\ workers = [w \in {"w1"} |-> IdleWorker]
    /\ now = 0
    /\ budget = MaxSinkRequests
    /\ blockRun = 0
    /\ FileIdle /\ ScoreIdle /\ AdvIdle /\ SessIdle /\ AgentIdle

NextSinks ==
    \/ \E w \in DOMAIN workers, sid \in SessionIds :
          Start(w, sid) /\ UNCHANGED <<fileVars, scoreVars, advVars, sessVars, agentVars>>
    \/ \E w \in DOMAIN workers, sid \in SessionIds, user_msg \in Messages,
           quick_action \in QuickActionIds, log_ok \in BOOLEAN :
          /\ SinkTurnLoad(w, sid, user_msg, quick_action, log_ok)
          /\ UNCHANGED <<fileVars, scoreVars, advVars, sessVars, agentVars>>
    \/ \E w \in DOMAIN workers, flag_ok \in BOOLEAN, score_ok \in BOOLEAN :
          /\ SinkStep(w, flag_ok, score_ok)
          /\ UNCHANGED <<fileVars, scoreVars, advVars, sessVars, agentVars>>
    \/ \E w \in DOMAIN workers :
          Save(w) /\ UNCHANGED <<fileVars, scoreVars, advVars, sessVars, agentVars>>

SpecSinks == InitSinks /\ [][NextSinks]_vars

\* C25: a failed write to an observability sink (the interview-flag insert, the
\* quick-action log insert or the score row insert) does not fail the turn: no
\* request ends on such a failure, without a response and without its checkpoint.
C25_SinkFailureTolerated ==
    \A w \in DOMAIN workers : workers[w].outcome \notin SinkErrors


(***************************************************************************)
(* Session keys with path traversal in the checkpoint store.               *)
(***************************************************************************)
\* a key with a path separator (more than one component) or a ".." component
Traversal(key) == Len(key) > 1 \/ \E i \in 1..Len(key) : key[i] = ".."

\* C29: the checkpoint store rejects a session key that contains path traversal
\* (a '..' component or a path separator): a load with such a key fails with an
\* error and looks at no file outside the checkpoint base directory.
C29_TraversalRejected ==
    (loaded # <<>> /\ Traversal(loaded[1].key)) =>
        /\ loaded[1].result.kind = "error"
        /\ SubSeq(FilePath(loaded[1].key), 1, Len(BASE_DIR)) = BASE_DIR


(***************************************************************************)
(* Moving on after an evaluated answer.                                    *)
(***************************************************************************)
\* C30: when the flow manager emits EVAL_AND_ASK_NEXT the session advances to the
\* next item: after the decision the current item and question are no longer the
\* ones just evaluated, and the question now pending is a base question with
\* followup_index 0, so that a later answer is not evaluated against the exhausted
\* item.
C30_EvalAndAskNextAdvances ==
    \A w \in DOMAIN workers :
        LET r == workers[w].result
        IN r.type = "EVAL_AND_ASK_NEXT" =>
              /\ r.after[1].question_id # r.before[1].question_id
              /\ r.after[1].mem.item_id # r.before[1].mem.item_id
              /\ r.after[1].mem.followup_index = 0


(***************************************************************************)
(* llm_gateway/llm_gateway.py: chat calls made from several threads.  A    *)
(* step of a call is the entry (with _lock_for), taking the route's lock,  *)
(* or one POST with everything the loop does with its reply.               *)
(***************************************************************************)
ThreadIds == {"t1", "t2"}

\* LlmRoute: the fields chat reads
GwRoutes ==
    {[name |-> "seq", sequential |-> TRUE, max_retries |-> 1],
     [name |-> "seq0", sequential |-> TRUE, max_retries |-> 0],
     [name |-> "par", sequential |-> FALSE, max_retries |-> 2]}

\* what a POST can come to: the transport raises, a status of 400 or more, a body
\* that is no JSON, content that fails validation (with one of two error texts),
\* content that validates
ValidationErrors == {"error_a", "error_b"}
PostReplies == {"transport", "status", "not_json", "valid"} \cup ValidationErrors

NoRoute == [name |-> "", sequential |-> FALSE, max_retries |-> 0]
IdleThread ==
    [pc |-> "idle", route |-> NoRoute, posts |-> <<>>, replies |-> <<>>,
     last_error_text |-> None, outcome |-> "none"]

\* a loop that allows one attempt too many
attempts_more(cfg) == cfg.max_retries + 2

\* attempts = cfg.max_retries + 1
attempts(cfg) == cfg.max_retries + 1

\* _retry_hint: the error the extra system message names
_retry_hint(error_text) == [role |-> "system", names |-> error_text]

\* leaving the with-block only on a normal return
lock_exit_on_return(lks, t, cfg, outcome) ==
    IF cfg.sequential /\ outcome = "returned" THEN [lks EXCEPT ![cfg.name] = "free"] ELSE lks

\* leaving "with lock:" by return or by exception
lock_exit(lks, t, cfg, outcome) ==
    IF cfg.sequential THEN [lks EXCEPT ![cfg.name] = "free"] ELSE lks

\* chat is entered: a sequential route's lock is looked up, and created when it is
\* not there yet
Chat(t, cfg) ==
    /\ threads[t].pc = "idle" /\ callsLeft > 0
    /\ callsLeft' = callsLeft - 1
    /\ threads' = [threads EXCEPT ![t] =
          [IdleThread EXCEPT !.pc = IF cfg.sequential THEN "lock" ELSE "post", !.route = cfg]]
    /\ locks' = IF cfg.sequential /\ cfg.name \notin DOMAIN locks
                THEN locks @@ (cfg.name :> "free") ELSE locks
    /\ UNCHANGED <<mainVars, fileVars, scoreVars, advVars, sessVars, intentCall, monVars, pairVars,
                 extraVars>>

\* with lock: the thread waits until the lock is free
Acquire(t) ==
    /\ threads[t].pc = "lock"
    /\ locks[threads[t].route.name] = "free"
    /\ locks' = [locks EXCEPT ![threads[t].route.name] = t]
    /\ threads' = [threads EXCEPT ![t].pc = "post"]
    /\ UNCHANGED <<callsLeft>>
    /\ UNCHANGED <<mainVars, fileVars, scoreVars, advVars, sessVars, intentCall, monVars, pairVars,
                 extraVars>>

\* one pass of the attempt loop of _execute; a call that ends leaves the lock
Post(t, reply) ==
    LET me == threads[t]
        attempt == Len(me.posts)
        extra == IF attempt > 0 THEN <<_retry_hint(me.last_error_text)>> ELSE <<>>
        sent == [me EXCEPT !.posts = Append(@, extra), !.replies = Append(@, reply)]
        Ends(outcome) ==
            /\ threads' = [threads EXCEPT ![t] = [sent EXCEPT !.pc = "idle", !.outcome = outcome]]
            /\ locks' = lock_exit(locks, t, me.route, outcome)
    IN /\ me.pc = "post"
       /\ IF reply \in {"transport", "status", "not_json"} THEN Ends("LlmGatewayError: " \o reply)
          ELSE IF reply = "valid" THEN Ends("returned")
          ELSE IF attempt + 1 >= attempts(me.route)
          THEN Ends("LlmGatewayError: validation")
          ELSE /\ threads' = [threads EXCEPT ![t] = [sent EXCEPT !.last_error_text = reply]]
               /\ UNCHANGED locks
       /\ UNCHANGED <<callsLeft>>
       /\ UNCHANGED <<mainVars, fileVars, scoreVars, advVars, sessVars, intentCall, monVars, pairVars,
                 extraVars>>

InitGateway ==
    /\ MainIdle /\ FileIdle /\ ScoreIdle /\ AdvIdle /\ SessIdle
    /\ intentCall = <<>> /\ MonitorIdle /\ PairIdle /\ ExtraIdle
    /\ threads = [t \in ThreadIds |-> IdleThread]
    /\ locks = EmptyFn
    /\ callsLeft = MaxGatewayCalls

NextGateway ==
    \/ \E t \in ThreadIds, cfg \in GwRoutes : Chat(t, cfg)
    \/ \E t \in ThreadIds : Acquire(t)
    \/ \E t \in ThreadIds, reply \in PostReplies : Post(t, reply)

SpecGateway == InitGateway /\ [][NextGateway]_vars


\* the scheduler runs every thread that can go on, and a POST comes back (timeout_s)
SpecGatewayFair ==
    /\ SpecGateway
    /\ \A t \in ThreadIds : WF_vars(Acquire(t)) /\ WF_vars(\E reply \in PostReplies : Post(t, reply))

\* C26: a gateway call makes at most max_retries + 1 POST attempts; an attempt after
\* the first is made only after a reply that failed validation and carries exactly
\* one extra system message, which names that validation error; the first valid
\* reply ends the call with a return; when every attempt fails validation the call
\* raises; a transport failure or a status of 400 or more ends the call with an
\* error at once.
C26_AttemptsAndRetries ==
    \A t \in ThreadIds :
        LET me == threads[t]
            n == Len(me.posts)
            ended == me.pc = "idle" /\ n > 0
        IN /\ n <= me.route.max_retries + 1
           /\ \A i \in 1..n :
                 /\ i = 1 => me.posts[i] = <<>>
                 /\ i > 1 => /\ me.replies[i - 1] \in ValidationErrors
                             /\ me.posts[i] = <<[role |-> "system", names |-> me.replies[i - 1]]>>
                 /\ me.replies[i] \in {"transport", "status"} =>
                       (i = n /\ ended /\ me.outcome \notin {"none", "returned"})
                 /\ me.replies[i] = "valid" => (i = n /\ ended /\ me.outcome = "returned")
           /\ (ended /\ me.outcome = "returned") => me.replies[n] = "valid"
           /\ (n = me.route.max_retries + 1 /\ me.replies[n] \in ValidationErrors) =>
                 (ended /\ me.outcome = "LlmGatewayError: validation")

\* a call on a route with max_retries 2 that raised after three replies that all
\* failed validation, the last two with different errors
C26_Witness ==
    \E t \in ThreadIds :
        /\ threads[t].pc = "idle"
        /\ threads[t].route.max_retries = 2
        /\ threads[t].replies = <<"error_a", "error_a", "error_b">>
        /\ threads[t].outcome = "LlmGatewayError: validation"

\* a call is executing: it is past the lock, in the attempt loop
Executing(t) == threads[t].pc = "post"

\* C27: of the calls to a route marked sequential at most one is executing at any
\* time; the route's lock is held only by a call that is executing, so a call that
\* returned or raised has released it, and a call waiting for the lock gets it in
\* the end; calls to a route that is not sequential never wait.
C27_SequentialRoutes ==
    /\ [](/\ \A cfg \in GwRoutes :
               cfg.sequential =>
                  Cardinality({t \in ThreadIds : Executing(t) /\ threads[t].route = cfg}) <= 1
          /\ \A k \in DOMAIN locks :
               locks[k] # "free" => (Executing(locks[k]) /\ threads[locks[k]].route.name = k)
          /\ \A t \in ThreadIds : threads[t].pc = "lock" => threads[t].route.sequential)
    /\ \A t \in ThreadIds : (threads[t].pc = "lock") ~> Executing(t)

\* a call waits for the lock of a sequential route while another call to the route
\* is executing, after a call to that route has raised
C27_Witness ==
    \E t \in ThreadIds, u \in ThreadIds :
        /\ Executing(t) /\ threads[t].route.sequential
        /\ locks[threads[t].route.name] = t
        /\ threads[u].pc = "lock" /\ threads[u].route = threads[t].route
        /\ callsLeft = MaxGatewayCalls - 3


(***************************************************************************)
(* agents/persona_manager.py and two sessions side by side: the same base  *)
(* state under each persona, taken through the same turns with the same    *)
(* inputs, clock and oracle replies.  A text is a sequence of pieces.      *)
(***************************************************************************)
Personas == {"Friendly Expert", "Firm Evaluator"}

TEMPLATES_FE(purpose) ==
    CASE purpose = "redirect" -> <<"Interesting! ", "Let's refocus on this topic: ", "{core}">>
      [] purpose = "nudge_depth" -> <<"That's a start, could you add more?">>
      [] purpose = "remind" -> <<"Take your time-", "would you like a hint or 30s to think?">>
      [] purpose = "block_refocus" -> <<"I can't follow such instructions. Let's continue: ", "{core}">>
      [] purpose = "hint" -> <<"Here's a nudge: ", "{core}">>
      [] purpose = "resume" -> <<"Let's pick up where we left off. ", "{core}">>
      [] purpose = "clarify" -> <<"Quick clarification: ", "{core}">>
      [] purpose = "wrapup" -> <<"Before we close: ", "{core}">>
      [] OTHER -> <<"{core}">>

\* template.replace("Interesting! ", "").replace("Take your time-", "Let's proceed-")
TEMPLATES_FIRM(purpose) ==
    LET dropped == SelectSeq(TEMPLATES_FE(purpose), LAMBDA piece : piece # "Interesting! ")
    IN [k \in DOMAIN dropped |->
           IF dropped[k] = "Take your time-" THEN "Let's proceed-" ELSE dropped[k]]

_choose_templates(persona, purpose) ==
    IF persona = "Friendly Expert" THEN TEMPLATES_FE(purpose) ELSE TEMPLATES_FIRM(purpose)

\* the template of the persona with the core text put in
apply_persona(text, persona, purpose) ==
    LET template == _choose_templates(persona, purpose)
    IN [k \in DOMAIN template |-> IF template[k] = "{core}" THEN text ELSE template[k]]

\* the text a step shows: the monitor's safe reply (styled without a persona
\* argument), or the text the flow manager or the route builds for the decision
decision_text(out) ==
    LET persona == out.st.persona
        question == IF out.st.question_text = None THEN "" ELSE out.st.question_text
    IN IF out.monitor # "ALLOW"
       THEN apply_persona("safe reply", PERSONA_DEFAULT,
                          CASE out.monitor = "REMIND" -> "remind"
                            [] out.monitor = "NUDGE_DEPTH" -> "nudge_depth"
                            [] out.monitor = "REDIRECT" -> "redirect"
                            [] OTHER -> "block_refocus")
       ELSE IF out.reason = "pause" THEN apply_persona("We can pause.", persona, "remind")
       ELSE IF out.reason = "clarify" THEN apply_persona("Scope A or B?", persona, "clarify")
       ELSE IF out.reason = "redirect"
       THEN apply_persona("Let's refocus on the current topic.", persona, "redirect")
       ELSE IF out.type = "HINT" /\ out.exhausted
       THEN apply_persona("Give it a try.", persona, "nudge_depth")
       ELSE IF out.type = "HINT" THEN apply_persona("hint", persona, "hint")
       ELSE IF out.type = "PAUSE_THINK" THEN apply_persona("Take the 30 seconds.", persona, "remind")
       ELSE apply_persona(question, persona, "ask_question")

\* the replies of the oracles during one step; a step asks the evaluator or the
\* hint oracle, never both
ReplySets ==
    {[monitor |-> m, intent |-> NoIntent, eval |-> NoEval, hint |-> "ok"] :
        m \in MonitorOutcomes \ {"ALLOW"}}
    \cup [monitor : {"ALLOW"}, intent : IntentReplies, eval : EvalReplies, hint : {"ok"}]
    \cup [monitor : {"ALLOW"}, intent : IntentReplies, eval : {NoEval}, hint : {"raise"}]

\* run_graph_turn on one of the two sessions: the outcomes of its step
persona_turn(run, user_msg, quick_action, replies, clock) ==
    {IF out.raised THEN [st |-> out.st, type |-> "raise", text |-> <<>>]
     ELSE [st |-> RequeueAfterStep(out.st, user_msg, quick_action), type |-> out.type,
           text |-> decision_text(out)] :
        out \in {step(run_graph_turn(run.st, user_msg, quick_action), replies.monitor,
                      replies.intent, replies.eval, replies.hint, clock)}}

PersonaTurn(user_msg, quick_action, replies, clock) ==
    /\ pairTurns < MaxPersonaTurns
    /\ pairTurns' = pairTurns + 1
    /\ \E runs \in [Personas -> UNION {persona_turn(pair[p], user_msg, quick_action, replies, clock) :
                                            p \in Personas}] :
          /\ \A p \in Personas :
                runs[p] \in persona_turn(pair[p], user_msg, quick_action, replies, clock)
          /\ pair' = runs
    /\ UNCHANGED <<mainVars, fileVars, scoreVars, advVars, sessVars, intentCall, monVars, gwVars,
                 extraVars>>

InitPersona ==
    /\ MainIdle /\ FileIdle /\ ScoreIdle /\ AdvIdle /\ SessIdle
    /\ intentCall = <<>> /\ MonitorIdle /\ GatewayIdle /\ ExtraIdle
    /\ pairTurns = 0
    /\ pair \in {[p \in Personas |-> [st |-> [base EXCEPT !.persona = p], type |-> "NONE",
                                        text |-> <<>>]] : base \in GraphBases}

NextPersona ==
    \E user_msg \in Messages, quick_action \in QuickActionIds, replies \in ReplySets,
       clock \in {0, think_seconds} :
        PersonaTurn(user_msg, quick_action, replies, clock)

SpecPersona == InitPersona /\ [][NextPersona]_vars

\* the fields of a session that routing and scoring read and write
RoutingView(st) ==
    [stage |-> st.stage, question_id |-> st.question_id,
     followup_index |-> st.mem.followup_index, skip_streak |-> st.skip_streak,
     blocks_in_row |-> st.blocks_in_row, hints_used_stage |-> st.hints_used_stage,
     score_cache |-> st.mem.score_cache]

\* C28: the persona affects neither routing nor scoring: two sessions that differ
\* only in their persona and get the same inputs, clock values and oracle replies
\* take decisions of the same type on every turn and agree after every turn on
\* stage, question_id, followup_index, skip_streak, blocks_in_row, hints_used_stage
\* and the score cache.
C28_PersonaNonInterference ==
    \A p \in DOMAIN pair, q \in DOMAIN pair :
        /\ pair[p].type = pair[q].type
        /\ RoutingView(pair[p].st) = RoutingView(pair[q].st)

\* after two turns the two sessions have been shown different wording for the
\* same decision
C28_Witness ==
    /\ pairTurns = 2
    /\ \E p \in DOMAIN pair, q \in DOMAIN pair :
          /\ pair[p].st.persona # pair[q].st.persona
          /\ pair[p].type = "REASK" /\ pair[q].type = "REASK"
          /\ pair[p].text # pair[q].text
          /\ pair[p].st.mem.score_cache # EmptyFn

(***************************************************************************)
(* The turn controller with a tally of the monitor outcomes: the number of *)
(* BLOCK_AND_REFOCUS outcomes since the last ALLOW that the checkpoint has *)
(* been through (saved) and that the state of the request in flight has    *)
(* been through (run).  The checkpoint is written by the save that ends a *)
(* request and by the steps that save on their own; what a failing        *)
(* request has not saved is dropped with its state.                        *)
(***************************************************************************)
\* the replies of the oracles that the tally is checked with
TallyOutcomes(st, clock) ==
    {step(st, monitor, NoIntent, NoEval, "ok", clock) : monitor \in MonitorOutcomes \ {"ALLOW"}}
    \cup {step(st, "ALLOW", intent_reply, eval_reply, "ok", clock) :
             intent_reply \in IntentReplies,
             eval_reply \in {e \in EvalReplies : e.kind # "valid" \/ e.criterion_scores # <<>>}}

TallyAfter(run, monitor) ==
    IF monitor = "ALLOW" THEN 0
    ELSE IF monitor = "BLOCK_AND_REFOCUS" THEN run + 1
    ELSE run

\* the consecutive skips after a step: an evaluated answer and an absorbed nudge
\* restart the count, a skip adds one
SkipsAfter(run, before, out) ==
    IF out.raised THEN run
    ELSE IF AnswerEvaluated([monitor |-> out.monitor, intent |-> out.intent, before |-> before])
    THEN 0
    ELSE IF out.type \in {"SKIP_AND_NEXT", "AUTO_SKIP_MOVED"} THEN run + 1
    ELSE IF out.type \in {"ASK", "EVAL_AND_ASK_NEXT"}
            /\ before[1].skip_streak >= nudge_after_consecutive_skips
    THEN 0
    ELSE run

TallyStart(w, sid) ==
    /\ Start(w, sid)
    /\ blockTally' = [blockTally EXCEPT !.run = 0]
    /\ skipTally' = [skipTally EXCEPT !.run = 0]

TallyTurnLoad(w, key, user_msg, quick_action) ==
    /\ TurnLoad(w, key, user_msg, quick_action)
    /\ blockTally' = [blockTally EXCEPT !.run = blockTally.saved]
    /\ skipTally' = [skipTally EXCEPT !.run = skipTally.saved]

TallyStep(w) ==
    /\ workers[w].pc \in {"step1", "step2"}
    /\ \E out \in TallyOutcomes(workers[w].st[1], now) :
          /\ StepDone(w, out, "error")
          /\ LET run == TallyAfter(blockTally.run, out.monitor)
             IN blockTally' = [run |-> run,
                               saved |-> IF out.saved # <<>> THEN run ELSE blockTally.saved]
          /\ LET run == SkipsAfter(skipTally.run, workers[w].st, out)
             IN skipTally' = [run |-> run,
                              saved |-> IF out.saved # <<>> THEN run ELSE skipTally.saved]

TallySave(w) ==
    /\ Save(w)
    /\ blockTally' = [blockTally EXCEPT !.saved = blockTally.run]
    /\ skipTally' = [skipTally EXCEPT !.saved = skipTally.run]

TallyFinish(w, key) ==
    /\ Finish(w, key)
    /\ blockTally' = [blockTally EXCEPT !.run = blockTally.saved]
    /\ skipTally' = [skipTally EXCEPT !.run = skipTally.saved]

InitTally ==
    /\ disk = EmptyFn
    /\ workers = [w \in {"w1"} |-> IdleWorker]
    /\ now = 0
    /\ budget = MaxTallyRequests
    /\ blockRun = 0
    /\ FileIdle /\ ScoreIdle /\ AdvIdle /\ SessIdle /\ AgentIdle

NextTally ==
    \/ \E w \in DOMAIN workers, sid \in SessionIds :
          TallyStart(w, sid)
          /\ UNCHANGED <<fileVars, scoreVars, advVars, sessVars, intentCall, monVars, gwVars, pairVars,
                         evalCall, safetyCall>>
    \/ \E w \in DOMAIN workers, key \in SessionIds, user_msg \in Messages,
          quick_action \in QuickActionIds :
          TallyTurnLoad(w, key, user_msg, quick_action)
          /\ UNCHANGED <<fileVars, scoreVars, advVars, sessVars, intentCall, monVars, gwVars, pairVars,
                         evalCall, safetyCall>>
    \/ \E w \in DOMAIN workers :
          TallyStep(w)
          /\ UNCHANGED <<fileVars, scoreVars, advVars, sessVars, intentCall, monVars, gwVars, pairVars,
                         evalCall, safetyCall>>
    \/ \E w \in DOMAIN workers :
          TallySave(w)
          /\ UNCHANGED <<fileVars, scoreVars, advVars, sessVars, intentCall, monVars, gwVars, pairVars,
                         evalCall, safetyCall>>
    \/ \E w \in DOMAIN workers, key \in SessionIds :
          TallyFinish(w, key)
          /\ UNCHANGED <<fileVars, scoreVars, advVars, sessVars, intentCall, monVars, gwVars, pairVars,
                         evalCall, safetyCall>>

SpecTally == InitTally /\ [][NextTally]_vars

\* the counter before and after the monitor of a step that returned
BlocksStep(r) ==
    LET before == r.before[1].blocks_in_row
        after == r.after[1].blocks_in_row
    IN CASE r.monitor = "ALLOW" -> after = 0
         [] r.monitor = "BLOCK_AND_REFOCUS" -> after = before + 1
         [] OTHER -> after = before

\* C31: every monitor outcome ALLOW sets blocks_in_row to 0, every BLOCK_AND_REFOCUS
\* adds exactly 1 to it, and REMIND, REDIRECT and NUDGE_DEPTH leave it as it is; the
\* counter of the state in flight and the counter in the checkpoint therefore equal
\* the number of BLOCK_AND_REFOCUS outcomes since the last ALLOW.
C31_BlocksInRow ==
    /\ \A w \in DOMAIN workers :
          /\ workers[w].result.before # <<>> => BlocksStep(workers[w].result)
          /\ Busy(w) => workers[w].st[1].blocks_in_row = blockTally.run
    /\ \A path \in DOMAIN disk : disk[path].blocks_in_row = blockTally.saved

\* two blocks and then a reminder have been saved: the counter stands at 2
C31_Witness ==
    /\ blockTally.saved = 2
    /\ \E path \in DOMAIN disk : disk[path].blocks_in_row = 2
    /\ \E w \in DOMAIN workers :
          /\ workers[w].pc = "save"
          /\ workers[w].result.monitor = "REMIND"
          /\ workers[w].result.after[1].blocks_in_row = 2

\* C32: skip_streak counts consecutive skips: a skip adds one, an evaluated answer
\* between two skips restarts the count, so the nudge (skip_streak >=
\* nudge_after_consecutive_skips) is reached only by that many skips with no
\* evaluated answer between them.
C32_ConsecutiveSkips ==
    /\ \A w \in DOMAIN workers : Busy(w) => workers[w].st[1].skip_streak = skipTally.run
    /\ \A path \in DOMAIN disk : disk[path].skip_streak = skipTally.saved

(***************************************************************************)
(* agents/response_evaluator.score_turn followed by services/scoring       *)
(* record_eval, as the answer rule of the flow manager calls them, over    *)
(* rubrics with zero, one and two criteria and every evaluator reply.      *)
(***************************************************************************)
\* weights in hundredths: one criterion, even and uneven pairs, weights that are all
\* zero, and a rubric without criteria (GraphState.rubric defaults to {})
EvalRubrics ==
    {<<>>,
     <<[id |-> "c1", weight |-> 100]>>,
     <<[id |-> "c1", weight |-> 50], [id |-> "c2", weight |-> 50]>>,
     <<[id |-> "c1", weight |-> 30], [id |-> "c2", weight |-> 70]>>,
     <<[id |-> "c1", weight |-> 0], [id |-> "c2", weight |-> 0]>>}

\* criterion scores as the oracle sends them: EvalCriterionScore.score is any integer
EvalScores == {0, 2, 5, 6}
EvalScoreLists ==
    LET one == [id : {"c1", "c2"}, score : EvalScores]
    IN {<<>>} \cup {<<a>> : a \in one} \cup {<<a, b>> : a \in one, b \in one}

EvalOracleReplies ==
    {[kind |-> "invalid", competency_id |-> "", item_id |-> "", criterion_scores |-> <<>>]}
    \cup {[kind |-> "valid", competency_id |-> "", item_id |-> "", criterion_scores |-> l] :
             l \in EvalScoreLists}

\* the answer rule's score_turn and record_eval on the current item
ScoreTurn(candidate_reply, rubric, reply) ==
    /\ evalCall.n < MaxEvalCalls
    /\ LET evaluation == score_turn("ARCH", "ARCH_01", evalCall.n, candidate_reply, rubric, reply)
       IN /\ evalCall' = [n |-> evalCall.n + 1, candidate_reply |-> candidate_reply,
                          rubric |-> rubric, reply |-> <<reply>>, result |-> <<evaluation>>]
          /\ cache' = record_eval(cache, evaluation)
    /\ UNCHANGED <<mainVars, fileVars, lastScoreOp, advVars, sessVars, intentCall, monVars,
                   gwVars, pairVars, blockTally, skipTally, safetyCall>>

InitEval ==
    /\ MainIdle /\ FileIdle /\ ScoreIdle /\ AdvIdle /\ SessIdle
    /\ intentCall = <<>> /\ MonitorIdle /\ GatewayIdle /\ PairIdle
    /\ blockTally = NoTally /\ skipTally = NoTally /\ safetyCall = <<>>
    /\ evalCall = NoEvalCall

NextEval ==
    \E candidate_reply \in {"full", "brief"}, rubric \in EvalRubrics, reply \in EvalOracleReplies :
        ScoreTurn(candidate_reply, rubric, reply)

SpecEval == InitEval /\ [][NextEval]_vars

\* the call consulted the oracle and its reply passed schema validation
ValidReply ==
    /\ evalCall.n > 0
    /\ token_count(evalCall.candidate_reply) >= LOW_CONTENT_TOKENS
    /\ evalCall.reply[1].kind = "valid"

\* the score the result should hold for a criterion: the reply's score for it,
\* bounded to 1..5, or the neutral 3 when the reply has none
ExpectedScore(id, sent) ==
    IF \E k \in DOMAIN sent : sent[k].id = id
    THEN LET k == CHOOSE j \in DOMAIN sent : sent[j].id = id
         IN IF sent[k].score < 1 THEN 1 ELSE IF sent[k].score > 5 THEN 5 ELSE sent[k].score
    ELSE 3

\* C33: after a schema-valid reply of the evaluator oracle the EvalResult holds
\* exactly one integer score in 1..5 for every rubric criterion (out-of-range scores
\* clamped, criteria missing from the reply scored 3), and overall is the
\* weight-normalized average of those scores rounded to one decimal.
C33_EveryCriterionScored ==
    ValidReply =>
        LET rubric == evalCall.rubric
            sent == evalCall.reply[1].criterion_scores
            got == evalCall.result[1].criterion_scores
            total == SumSeq([i \in DOMAIN rubric |-> rubric[i].weight])
            acc == SumSeq([i \in DOMAIN rubric |->
                              rubric[i].weight * ExpectedScore(rubric[i].id, sent)])
        IN /\ Len(got) = Len(rubric)
           /\ \A i \in DOMAIN rubric :
                 \E k \in DOMAIN got :
                     /\ got[k].id = rubric[i].id
                     /\ got[k].score = ExpectedScore(rubric[i].id, sent)
           /\ total > 0 => evalCall.result[1].overall = (20 * acc + total) \div (2 * total)

\* C34: every best_of in the score cache and every overall recorded in an item's
\* turns lies within [1.0, 5.0] (10..50 in tenths).
C34_ScoresInRange ==
    \A comp \in DOMAIN cache : \A item \in DOMAIN cache[comp].items :
        LET entry == cache[comp].items[item]
        IN /\ entry.best_of \in 10 .. 50
           /\ \A k \in DOMAIN entry.turns : entry.turns[k] \in 10 .. 50

(***************************************************************************)
(* config/safety.py: SafetyEngine.analyze.  A text is the sequence of its  *)
(* tokens; a category's patterns match some of the normalized tokens.      *)
(***************************************************************************)
SafetyTokens == {"IGNORE RULES", "ignore rules", "salary", "ssn", "hello"}
SafetyTexts == {<<>>} \cup {<<a>> : a \in SafetyTokens}
                 \cup {<<a, b>> : a \in SafetyTokens, b \in SafetyTokens}
SafetyTags == {"topic:security", "topic:comp"}

\* strip, collapse spaces, lower
_normalize(token) ==
    CASE token \in {"IGNORE RULES", "Ignore Rules"} -> "ignore rules"
      [] token = "Salary" -> "salary"
      [] OTHER -> token

\* the normalized tokens the compiled patterns of a category match
PatternMatches(category) ==
    CASE category = "jailbreak" -> {"ignore rules"}
      [] category = "pii" -> {"ssn", "salary"}
      [] category = "offtopic" -> {"salary"}
      [] OTHER -> {}

\* cfg["allow_lists"]: tag -> terms as written in the file
AllowLists(tag) ==
    CASE tag = "topic:security" -> {"Ignore Rules"}
      [] tag = "topic:comp" -> {"Salary"}
      [] OTHER -> {}

\* categories in the order of the file, the precedence list, and the severities
\* the file gives (a category without one is "info")
SafetyConfigs ==
    [categories : {<<"offtopic", "pii", "jailbreak">>, <<"jailbreak", "pii", "offtopic">>},
     precedence : {<<"jailbreak", "pii", "offtopic">>, <<"offtopic", "pii", "jailbreak">>,
                   <<"pii">>},
     severity : {[jailbreak |-> "high", pii |-> "critical"]}]

_allow_ok(token, context_tags) ==
    \E tag \in SafetyTags :
        /\ tag \in context_tags
        /\ _normalize(token) \in {_normalize(term) : term \in AllowLists(tag)}

\* the hits of one category, in text order
CategoryHits(category, sample) ==
    LET at == SelectSeq([i \in DOMAIN sample |-> i],
                        LAMBDA i : sample[i] \in PatternMatches(category))
    IN [k \in DOMAIN at |-> [category |-> category, span |-> at[k], token |-> sample[at[k]]]]

\* every hit, category by category
AllHits(cfg, sample) ==
    LET RECURSIVE go(_)
        go(c) == IF c = 0 THEN <<>>
                 ELSE go(c - 1) \o CategoryHits(cfg.categories[c], sample)
    IN go(Len(cfg.categories))

\* precedence_lookup.get(category, inf), with inf as the length of the list + 1
precedence_index(cfg, category) ==
    IF \E i \in DOMAIN cfg.precedence : cfg.precedence[i] = category
    THEN CHOOSE i \in DOMAIN cfg.precedence : cfg.precedence[i] = category
    ELSE Len(cfg.precedence) + 1

\* the winner taken from the end of the precedence list
winning_category_last(cfg, matches) ==
    LET best == CHOOSE k \in DOMAIN matches :
                   \A j \in DOMAIN matches :
                       \/ precedence_index(cfg, matches[j].category)
                              < precedence_index(cfg, matches[k].category)
                       \/ /\ precedence_index(cfg, matches[j].category)
                              = precedence_index(cfg, matches[k].category)
                          /\ k <= j
    IN matches[best].category

\* min(matches, key=...): the first hit among those of least index
winning_category(cfg, matches) ==
    LET best == CHOOSE k \in DOMAIN matches :
                   \A j \in DOMAIN matches :
                       \/ precedence_index(cfg, matches[j].category)
                              > precedence_index(cfg, matches[k].category)
                       \/ /\ precedence_index(cfg, matches[j].category)
                              = precedence_index(cfg, matches[k].category)
                          /\ k <= j
    IN matches[best].category

analyze(cfg, text, context_tags) ==
    LET sample == [i \in DOMAIN text |-> _normalize(text[i])]
        matches == AllHits(cfg, sample)
    IN IF \E k \in DOMAIN matches : _allow_ok(matches[k].token, context_tags)
       THEN [category |-> None, severity |-> "info", hits |-> <<>>, allow_list_reason |-> "allowed"]
       ELSE IF matches = <<>>
       THEN [category |-> None, severity |-> "info", hits |-> <<>>, allow_list_reason |-> None]
       ELSE LET winner == winning_category(cfg, matches)
            IN [category |-> winner,
                severity |-> IF winner \in DOMAIN cfg.severity THEN cfg.severity[winner]
                             ELSE "info",
                hits |-> SelectSeq(matches, LAMBDA hit : hit.category = winner),
                allow_list_reason |-> None]

Analyze(cfg, text, context_tags) ==
    /\ safetyCall' = <<[cfg |-> cfg, text |-> text, context_tags |-> context_tags,
                        finding |-> analyze(cfg, text, context_tags)]>>
    /\ UNCHANGED <<mainVars, fileVars, scoreVars, advVars, sessVars, intentCall, monVars,
                   gwVars, pairVars, blockTally, skipTally, evalCall>>

InitSafety ==
    /\ MainIdle /\ FileIdle /\ ScoreIdle /\ AdvIdle /\ SessIdle
    /\ intentCall = <<>> /\ MonitorIdle /\ GatewayIdle /\ PairIdle
    /\ blockTally = NoTally /\ skipTally = NoTally /\ evalCall = NoEvalCall
    /\ safetyCall = <<>>

NextSafety ==
    \E cfg \in SafetyConfigs, text \in SafetyTexts, context_tags \in SUBSET SafetyTags :
        Analyze(cfg, text, context_tags)

SpecSafety == InitSafety /\ [][NextSafety]_vars

\* the categories with a match in the normalized text, and a token being allow-listed
Matched(call) ==
    {c \in {call.cfg.categories[i] : i \in DOMAIN call.cfg.categories} :
        \E i \in DOMAIN call.text : _normalize(call.text[i]) \in PatternMatches(c)}
Allowed(call) ==
    \E c \in Matched(call), i \in DOMAIN call.text, tag \in call.context_tags :
        /\ _normalize(call.text[i]) \in PatternMatches(c)
        /\ \E term \in AllowLists(tag) : _normalize(term) = _normalize(call.text[i])

\* C35: a match whose normalized token is in the allow-list of a supplied context
\* tag makes the finding clean with allow_list_reason set; no hit makes it clean;
\* otherwise the category is the matched category of lowest index in the precedence
\* list, the severity is the one configured for it, and the hits are exactly the
\* hits of that category.
C35_SafetyFinding ==
    \A k \in DOMAIN safetyCall :
        LET call == safetyCall[k]
            f == call.finding
            listed == {c \in Matched(call) :
                          \E i \in DOMAIN call.cfg.precedence : call.cfg.precedence[i] = c}
        IN IF Allowed(call)
           THEN f.category = None /\ f.hits = <<>> /\ f.allow_list_reason # None
           ELSE IF Matched(call) = {}
           THEN f.category = None /\ f.hits = <<>> /\ f.allow_list_reason = None
           ELSE /\ f.category \in Matched(call)
                /\ listed # {} =>
                      /\ f.category \in listed
                      /\ \A c \in listed :
                            precedence_index(call.cfg, f.category)
                                <= precedence_index(call.cfg, c)
                /\ f.severity = IF f.category \in DOMAIN call.cfg.severity
                                THEN call.cfg.severity[f.category] ELSE "info"
                /\ \A j \in DOMAIN f.hits : f.hits[j].category = f.category
                /\ {f.hits[j].span : j \in DOMAIN f.hits}
                      = {i \in DOMAIN call.text :
                            _normalize(call.text[i]) \in PatternMatches(f.category)}
                /\ Len(f.hits) = Cardinality({f.hits[j].span : j \in DOMAIN f.hits})

\* a text that two categories match, neither allow-listed: the one that comes first
\* in the precedence list wins although the file lists it last
C35_Witness ==
    \E k \in DOMAIN safetyCall :
        LET call == safetyCall[k]
        IN /\ Cardinality(Matched(call)) >= 2
           /\ ~Allowed(call)
           /\ call.finding.category = call.cfg.precedence[1]
           /\ call.cfg.categories[1] # call.cfg.precedence[1]
           /\ call.cfg.categories[1] \in Matched(call)
           /\ Len(call.finding.hits) >= 1

(***************************************************************************)
(* advance_session over an interview with two competencies, the first with *)
(* three criteria and the second with one, and plans that score the        *)
(* competency by its exact name.                                           *)
(***************************************************************************)
CompetencyPlans ==
    {<<>>} \cup
    {<<[competency |-> c, score |-> v, criterion_levels |-> EmptyFn]>> :
        c \in {"Systems Design", "Coding"}, v \in ScoreChoices} \cup
    {<<[competency |-> c, score |-> v, criterion_levels |-> (k :> l)]>> :
        c \in {"Systems Design", "Coding"}, v \in ScoreChoices,
        k \in {"Scalability", "Tradeoffs", "Correctness"}, l \in {0, 4}}

NextCompetency ==
    \/ StartSession /\ UNCHANGED <<mainVars, fileVars, scoreVars, sessVars, agentVars>>
    \/ \E plan \in CompetencyPlans :
          AdvanceWithin(plan, MaxCompetencyAdvances)
          /\ UNCHANGED <<mainVars, fileVars, scoreVars, sessVars, agentVars>>

SpecCompetency == InitAdvance /\ [][NextCompetency]_vars

\* the last call evaluated the answer to a competency question
CompetencyAnswer ==
    /\ ctx # <<>> /\ lastPlan # <<>> /\ lastPlan[1].pre # <<>>
    /\ lastPlan[1].pre[1].stage = "competency"
    /\ _stage_for_question(lastPlan[1].pre[1].asked, warmup_questions) = "competency"

\* the score the evaluation holds for the competency of the answered question
EvaluatedScore ==
    LET pre == lastPlan[1].pre[1]
    IN _find_score(EvaluatorAgent_invoke(pre, lastPlan[1].plan), pre.competency)

\* every criterion covered for a single criterion, all but at most one for several
CoverageComplete(competency, context) ==
    LET criteria == {competency_criteria[competency][i] :
                        i \in DOMAIN competency_criteria[competency]}
        missing == criteria \ context.competency_covered[competency]
    IN IF Cardinality(criteria) <= 1 THEN missing = {} ELSE Cardinality(missing) <= 1

\* C36: after a competency-stage answer advance_session moves on to the next
\* competency (to wrap-up after the last one) exactly when coverage is complete, or
\* question_index >= max_competency_followups, or the competency's low-score
\* counter >= max_competency_followups; otherwise it asks another question for the
\* same competency.  The low-score counter grows by one exactly when the evaluated
\* score is below low_score_threshold.
C36_AdvanceRule ==
    CompetencyAnswer =>
        LET pre == lastPlan[1].pre[1]
            post == ctx[1]
            current == pre.competency
            low == post.competency_low_scores[current]
            due == \/ CoverageComplete(current, post)
                   \/ pre.question_index >= max_competency_followups
                   \/ low >= max_competency_followups
            last == pre.competency_index + 1 >= Len(competency_pillars)
        IN /\ low = pre.competency_low_scores[current]
                     + (IF EvaluatedScore # <<>> /\ EvaluatedScore[1].score < low_score_threshold
                        THEN 1 ELSE 0)
           /\ IF due
              THEN /\ post.competency_index = pre.competency_index + 1
                   /\ IF last THEN post.stage = "wrap_up" /\ post.competency = None
                      ELSE /\ post.stage = "competency"
                           /\ post.competency = competency_pillars[post.competency_index + 1]
                           /\ post.question_index = 1
              ELSE /\ post.stage = "competency"
                   /\ post.competency = current
                   /\ post.competency_index = pre.competency_index
                   /\ post.question_index = pre.question_index + 1

\* the single-criterion competency is left for wrap-up because its criterion is
\* covered, after the first competency was left with one criterion still open
C36_Witness ==
    /\ CompetencyAnswer
    /\ lastPlan[1].pre[1].competency = "Coding"
    /\ lastPlan[1].pre[1].question_index < max_competency_followups
    /\ ctx[1].competency_low_scores["Coding"] < max_competency_followups
    /\ ctx[1].competency_covered["Coding"] = {"Correctness"}
    /\ Cardinality(ctx[1].competency_covered["Systems Design"]) = 2
    /\ ctx[1].stage = "wrap_up"

(***************************************************************************)
(* start_interview: an interview is started and the candidate answers each *)
(* pending question in turn, the tools answering without an exception.  The *)
(* loop answers as long as a question is pending, hence the fairness.      *)
(***************************************************************************)
StartInterview ==
    \E session_id \in SessionNames, plan \in SessionPlans, cfg \in FlowConfigs :
        start_session_managed(session_id, plan, cfg, "ok")

\* one pass of the loop: the responder answers the pending question
CandidateAnswers ==
    \E session_id \in DOMAIN store :
        /\ store[session_id].state.pending_question # <<>>
        /\ submit_answer_from(session_id, {"filled", "open"}, {"ok"})
        /\ UNCHANGED <<mainVars, fileVars, scoreVars, advVars, agentVars>>

NextInterview ==
    \/ StartInterview /\ UNCHANGED <<mainVars, fileVars, scoreVars, advVars, agentVars>>
    \/ CandidateAnswers

SpecInterview == InitSessions /\ [][NextInterview]_vars /\ WF_vars(CandidateAnswers)

\* warmup_question_count + max_questions_per_competency for each rubric of the plan + 1
QuestionLimit(cfg, st) ==
    cfg.warmup_question_count
    + Len(st.competency_order) * cfg.max_questions_per_competency + 1

\* C37: with a candidate that answers every pending question an interview always
\* terminates, whatever the evaluator reports: it never asks more than
\* warmup_question_count + the sum over the competencies of
\* max_questions_per_competency + 1 questions, and every started interview reaches
\* the stage complete with no question pending.
C37_InterviewTerminates ==
    /\ [](\A id \in DOMAIN store :
             store[id].state.questions_asked <= QuestionLimit(store[id].engine, store[id].state))
    /\ [](lastCall.completed =>
             /\ lastCall.state[1].stage = "complete"
             /\ lastCall.state[1].pending_question = <<>>)
    /\ \A id \in SessionNames : (id \in DOMAIN store) ~> (id \in DOMAIN issued /\ issued[id] = "completed")

\* an interview over two competencies completed although no rubric was ever filled
C37_Witness ==
    /\ lastCall.completed
    /\ Cardinality(DOMAIN lastCall.state[1].competencies) = 2
    /\ \A c \in DOMAIN lastCall.state[1].competencies :
          /\ ~lastCall.state[1].competencies[c].rubric_filled
          /\ lastCall.state[1].competencies[c].questions >= max_questions_per_competency

C39_ThinkUntilKept ==
    [][\A w \in DOMAIN workers :
          /\ (workers[w].pc \in {"step1", "step2"} /\ workers'[w].pc \in {"step2", "save"}) =>
                LET before == workers[w].st[1].mem.think_until
                    after == workers'[w].st[1].mem.think_until
                IN IF workers'[w].result.type = "PAUSE_THINK"
                   THEN after = now + think_seconds
                   ELSE after = before
          /\ (workers[w].pc = "idle" /\ workers'[w].pc # "idle") =>
                LET me == workers'[w]
                IN \/ me.kind \in {"start", "finish"}
                   \/ /\ me.kind = "turn"
                      /\ ~ThinkExpired(me.pre[1], now)
                      /\ me.st[1].mem.think_until = me.pre[1].mem.think_until
                   \/ /\ me.kind = "resume"
                      /\ ThinkExpired(me.pre[1], now)
                      /\ me.st[1].mem.think_until = NoneInt
                      /\ me.st[1].user_msg = me.pre[1].user_msg
                      /\ me.st[1].quick_action = me.pre[1].quick_action
                      /\ me.st[1].queued_user_msg = me.pre[1].queued_user_msg
                      /\ me.result = NoResult
          /\ (workers[w].pc = "save" /\ workers'[w].pc = "idle") =>
                LET ck == load_checkpoint(disk', SessionOf(w))
                IN /\ ck # <<>>
                   /\ ck[1].mem.think_until = workers[w].st[1].mem.think_until
                   /\ workers[w].kind = "resume" =>
                         /\ ck[1].user_msg = workers[w].pre[1].user_msg
                         /\ ck[1].quick_action = workers[w].pre[1].quick_action
                         /\ ck[1].queued_user_msg = workers[w].pre[1].queued_user_msg
    ]_vars

\* an answer was evaluated while the think timer was running, and the timer is
\* still set to the same deadline
C39_Witness ==
    \E w \in DOMAIN workers :
        /\ workers[w].kind = "turn" /\ workers[w].pc = "save"
        /\ workers[w].result.intent = "answer"
        /\ workers[w].result.type \in {"EVAL_AND_ASK_NEXT", "EVAL_AND_FOLLOWUP"}
        /\ workers[w].pre[1].mem.think_until >= 0
        /\ now < workers[w].pre[1].mem.think_until
        /\ workers[w].st[1].mem.think_until = workers[w].pre[1].mem.think_until

\* the checkpoint carries no input that is still to be worked on
NoPendingInput(st) ==
    st.user_msg = None /\ st.quick_action = None /\ st.queued_user_msg = None

\* C40: a turn request that loaded a checkpoint with no pending input and ran to
\* its end writes a checkpoint with user_msg, quick_action and queued_user_msg all
\* null, whatever the request carried and whatever the monitor answered.
C40_CheckpointHoldsNoInput ==
    [][\A w \in DOMAIN workers :
          (/\ workers[w].kind \in {"turn", "resume"}
           /\ workers[w].pc = "save" /\ workers'[w].pc = "idle"
           /\ NoPendingInput(workers[w].pre[1])) =>
              LET ck == load_checkpoint(disk', SessionOf(w))
              IN ck # <<>> /\ NoPendingInput(ck[1])
    ]_vars

\* a turn that carried both a quick action and a message, whose second run was
\* stopped by the monitor, about to write its checkpoint
C40_Witness ==
    \E w \in DOMAIN workers :
        /\ CarriesBoth(w) /\ workers[w].pc = "save"
        /\ NoPendingInput(workers[w].pre[1])
        /\ workers[w].result.monitor \in MonitorActions \ {"ALLOW"}
        /\ workers[w].result.before[1].user_msg = workers[w].req.user_msg
        /\ NoPendingInput(workers[w].st[1])

====
